---- MODULE Spec2Model ----
(***************************************************************************)
(* Model of the gust HTTP core: the offset-only HTTP/1.1 request parser    *)
(* (packages/core/crates/serve-core/src/parser.rs) and the per-method trie *)
(* router (crates/gust-router/src/lib.rs), and of the request pipeline     *)
(* around them: the middleware chain, the connection tracker with graceful *)
(* shutdown, the circuit breaker, the bulkhead and the rate limiter        *)
(* (crates/gust-core, crates/gust-napi).                                   *)
(*                                                                         *)
(* Bytes and characters are one-character strings; a buffer, a path or a   *)
(* method string is a sequence of them.  Offsets are 0-based, as in the    *)
(* source: At(buf, i) is buf[i].                                           *)
(***************************************************************************)
EXTENDS Integers, Sequences, FiniteSets, TLC

VARIABLES
    wire,       \* parser: bytes the client has still to deliver
    buf,        \* parser: bytes the connection has accumulated so far
    result,     \* parser: ParsedRequest + header_offsets of the last parse_request(buf)
    trees,      \* router: Router.trees, method -> trie
    inserted,   \* router: the insert calls made so far, in order
    found,      \* router: the last find call and what it returned
    middlewares,    \* chain: MiddlewareChain.middlewares, in registration order
    request,        \* chain: the request handle_request is working on
    pc,             \* chain: where handle_request stands
    has_middleware, \* chain: the local of that name in handle_request
    invoked,        \* chain: hooks and handlers called for the request, in order
    response,       \* chain: Option<Response> of the request so far
    active,         \* server: ConnectionTracker.active
    shutting_down,  \* server: ConnectionTracker.shutting_down
    open,           \* server: connection tasks spawned and not yet finished
    accept_pc,      \* server: where the accept loop of serve_http stands
    shutdown_sent,  \* server: the oneshot shutdown signal has been sent
    gs_pc,          \* server: where graceful_shutdown stands
    gs_timeout,     \* server: graceful_shutdown was called with timeout_ms > 0
    drained,        \* server: what graceful_shutdown returned, once it has
    shutdown_pc,    \* server: where shutdown (the immediate one) stands
    breaker,        \* breaker: the CircuitBreaker (config, state, failures, ...)
    clock,          \* breaker: what Instant::now() returns
    allowed,        \* breaker: what the last can_request returned
    failure_log,    \* breaker: the times of all record_failure calls so far
    opened_at,      \* breaker: the time of the last change to Open, if any
    bulkhead,       \* bulkhead: the Bulkhead (config, running, queued)
    bh_pc,          \* bulkhead: per thread, where its try_acquire / guard stands
    bh_current,     \* bulkhead: per thread, the local `current` of try_acquire
    bh_result,      \* bulkhead: per thread, what its last try_acquire returned
    limiter,        \* rate limit: the RateLimit (config, entries of its MemoryStore)
    rl_now,         \* rate limit: what Instant::now() returns
    rl_req,         \* rate limit: the request `before` has checked and not yet counted
    rl_log,         \* rate limit: the verdict of every request handled so far
    cb_pc,          \* shared breaker: per thread, the step its call is at
    rl_calls        \* shared limiter: per thread, the request `before` has checked

parserVars == <<wire, buf, result>>
routerVars == <<trees, inserted, found>>
chainVars == <<middlewares, request, pc, has_middleware, invoked, response>>

serverVars ==
    <<active, shutting_down, open, accept_pc, shutdown_sent, gs_pc, gs_timeout,
      drained, shutdown_pc>>

breakerVars == <<breaker, clock, allowed, failure_log, opened_at>>

bulkheadVars == <<bulkhead, bh_pc, bh_current, bh_result>>

limiterVars == <<limiter, rl_now, rl_req, rl_log>>

\* the threads that share one CircuitBreaker or one RateLimit
threadVars == <<cb_pc, rl_calls>>

\* the state of gust-core and of the server around it
coreVars ==
    <<chainVars, serverVars, breakerVars, bulkheadVars, limiterVars, threadVars>>

\* what the steps of one component leave alone
notChain == <<parserVars, routerVars, serverVars, breakerVars, bulkheadVars,
    limiterVars, threadVars>>
notServer == <<parserVars, routerVars, chainVars, breakerVars, bulkheadVars,
    limiterVars, threadVars>>
notBreaker == <<parserVars, routerVars, chainVars, serverVars, bulkheadVars,
    limiterVars, threadVars>>
notLimiter ==
    <<parserVars, routerVars, chainVars, serverVars, breakerVars, bulkheadVars,
      threadVars>>
notSharedBreaker ==
    <<parserVars, routerVars, chainVars, serverVars, bulkheadVars, limiterVars,
      rl_calls, failure_log, opened_at>>
notSharedLimiter ==
    <<parserVars, routerVars, chainVars, serverVars, breakerVars, bulkheadVars,
      cb_pc, rl_req>>
notBulkhead == <<parserVars, routerVars, chainVars, serverVars, breakerVars,
    limiterVars, threadVars>>

vars == <<parserVars, routerVars, coreVars>>

\* no middleware registered, no request in flight
ChainIdle ==
    /\ middlewares = <<>>
    /\ request = <<>>
    /\ pc = "idle"
    /\ has_middleware = FALSE
    /\ invoked = <<>>
    /\ response = <<>>

\* ConnectionTracker::new, the accept loop waiting, no shutdown asked for
ServerIdle ==
    /\ active = 0
    /\ shutting_down = FALSE
    /\ open = 0
    /\ accept_pc = "accept"
    /\ shutdown_sent = FALSE
    /\ gs_pc = "idle"
    /\ gs_timeout = FALSE
    /\ drained = <<>>
    /\ shutdown_pc = "idle"

\* no circuit breaker has been created
BreakerIdle ==
    /\ breaker = <<>>
    /\ clock = 0
    /\ allowed = <<>>
    /\ failure_log = <<>>
    /\ opened_at = <<>>

\* no bulkhead has been created
BulkheadIdle ==
    /\ bulkhead = <<>>
    /\ bh_pc = <<>>
    /\ bh_current = <<>>
    /\ bh_result = <<>>

\* no rate limiter has been created
LimiterIdle ==
    /\ limiter = <<>>
    /\ rl_now = 0
    /\ rl_req = <<>>
    /\ rl_log = <<>>

\* no thread shares a breaker or a limiter
ThreadsIdle ==
    /\ cb_pc = <<>>
    /\ rl_calls = <<>>

CoreIdle ==
    /\ ChainIdle /\ ServerIdle /\ BreakerIdle /\ BulkheadIdle /\ LimiterIdle
    /\ ThreadsIdle

\* Option::None of Method::parse
NONE == "None"

\* Option::None of memchr / memchr2, which otherwise give an offset >= 0
NotFound == 0 - 1

CR == "\r"
LF == "\n"
SP == " "
HT == "\t"

(***************************************************************************)
(* Bounds of the model                                                     *)
(***************************************************************************)
\* longest run of arbitrary bytes appended after a minimal request
MaxTail == 2
\* most header lines in a request of the header family
MaxHeaderLines == 2
\* how many header lines beyond MAX_HEADERS an over-long request carries
MaxExtraHeaders == 2
\* most bytes one read delivers
MaxChunk == 2

(***************************************************************************)
(* Small helpers                                                           *)
(***************************************************************************)
At(s, i) == s[i + 1]

\* s[from..to) with 0-based offsets
Slice(s, from, to) == SubSeq(s, from + 1, to)

RECURSIVE Concat(_)
Concat(ss) == IF ss = <<>> THEN <<>> ELSE Head(ss) \o Concat(Tail(ss))

\* all sequences over S of length at most n
RECURSIVE SeqsUpTo(_, _)
SeqsUpTo(S, n) ==
    IF n = 0 THEN {<<>>}
    ELSE LET shorter == SeqsUpTo(S, n - 1)
         IN  shorter \cup {Append(s, x) : s \in shorter, x \in S}

(***************************************************************************)
(* parser.rs                                                               *)
(***************************************************************************)
MAX_HEADERS == 64

\* memchr(b, &buf[from..]) as an absolute offset, NotFound when b does not occur
RECURSIVE memchr(_, _, _)
memchr(b, s, from) ==
    IF from >= Len(s) THEN NotFound
    ELSE IF At(s, from) = b THEN from
    ELSE memchr(b, s, from + 1)

\* memchr2(a, b, &buf[from..]) as an absolute offset
RECURSIVE memchr2(_, _, _, _)
memchr2(a, b, s, from) ==
    IF from >= Len(s) THEN NotFound
    ELSE IF At(s, from) = a \/ At(s, from) = b THEN from
    ELSE memchr2(a, b, s, from + 1)

GET     == <<"G", "E", "T">>
POST    == <<"P", "O", "S", "T">>
PUT     == <<"P", "U", "T">>
DELETE  == <<"D", "E", "L", "E", "T", "E">>
PATCH   == <<"P", "A", "T", "C", "H">>
HEAD    == <<"H", "E", "A", "D">>
OPTIONS == <<"O", "P", "T", "I", "O", "N", "S">>
CONNECT == <<"C", "O", "N", "N", "E", "C", "T">>
TRACE   == <<"T", "R", "A", "C", "E">>

\* a variant of Method::parse that looks at the first byte only
MethodParse_FirstByteOnly(bytes) ==
    IF bytes = <<>> THEN NONE
    ELSE CASE bytes[1] = "G" -> "Get"
           [] bytes[1] = "P" -> "Post"
           [] bytes[1] = "D" -> "Delete"
           [] bytes[1] = "H" -> "Head"
           [] bytes[1] = "O" -> "Options"
           [] bytes[1] = "C" -> "Connect"
           [] bytes[1] = "T" -> "Trace"
           [] OTHER -> NONE

\* Method::parse
MethodParse(bytes) ==
    IF bytes = <<>> THEN NONE
    ELSE CASE bytes[1] = "G" /\ bytes = GET -> "Get"
           [] bytes[1] = "P" ->
                CASE bytes = POST  -> "Post"
                  [] bytes = PUT   -> "Put"
                  [] bytes = PATCH -> "Patch"
                  [] OTHER -> NONE
           [] bytes[1] = "D" /\ bytes = DELETE  -> "Delete"
           [] bytes[1] = "H" /\ bytes = HEAD    -> "Head"
           [] bytes[1] = "O" /\ bytes = OPTIONS -> "Options"
           [] bytes[1] = "C" /\ bytes = CONNECT -> "Connect"
           [] bytes[1] = "T" /\ bytes = TRACE   -> "Trace"
           [] OTHER -> NONE

\* ParsedRequest::default(), with the header_offsets entries written so far
DefaultResult ==
    [state |-> 0, method |-> "Get", path_start |-> 0, path_end |-> 0,
     query_start |-> 0, query_end |-> 0, headers_count |-> 0, body_start |-> 0,
     header_offsets |-> <<>>]

\* a variant of the length guard that admits 16-byte requests
TooShort_Sixteen(len) == len < 16

\* the minimum-length guard of parse_request
TooShort(len) == len < 18

\* the method token ends at the first space, which must be among the first 8 bytes
MethodEnd(s) ==
    LET i == memchr(SP, s, 0)
    IN  IF i # NotFound /\ i < 8 THEN i ELSE NotFound

\* a variant of the request-target scan that moves path_end at every '?'
RECURSIVE ScanTarget_EveryQuestionMark(_, _, _, _)
ScanTarget_EveryQuestionMark(s, i, line_end, acc) ==
    IF i >= line_end THEN acc
    ELSE IF At(s, i) = SP
         THEN IF acc.query_start = 0
              THEN [acc EXCEPT !.path_end = i, !.found_space = TRUE]
              ELSE [acc EXCEPT !.query_end = i, !.found_space = TRUE]
    ELSE IF At(s, i) = "?"
         THEN ScanTarget_EveryQuestionMark(s, i + 1, line_end,
                  [acc EXCEPT !.path_end = i, !.query_start = i + 1])
    ELSE ScanTarget_EveryQuestionMark(s, i + 1, line_end, acc)

\* a variant of the request-target scan that takes the end of the line for
\* the space before the version
RECURSIVE ScanTarget_LineEndIsSpace(_, _, _, _)
ScanTarget_LineEndIsSpace(s, i, line_end, acc) ==
    IF i >= line_end THEN [acc EXCEPT !.path_end = i, !.found_space = TRUE]
    ELSE IF At(s, i) = SP
         THEN IF acc.query_start = 0
              THEN [acc EXCEPT !.path_end = i, !.found_space = TRUE]
              ELSE [acc EXCEPT !.query_end = i, !.found_space = TRUE]
    ELSE IF At(s, i) = "?" /\ acc.query_start = 0
         THEN ScanTarget_LineEndIsSpace(s, i + 1, line_end,
                  [acc EXCEPT !.path_end = i, !.query_start = i + 1])
    ELSE ScanTarget_LineEndIsSpace(s, i + 1, line_end, acc)

\* the loop `for i in pos..line_end` over the request-target
RECURSIVE ScanTarget(_, _, _, _)
ScanTarget(s, i, line_end, acc) ==
    IF i >= line_end THEN acc
    ELSE IF At(s, i) = SP
         THEN IF acc.query_start = 0
              THEN [acc EXCEPT !.path_end = i, !.found_space = TRUE]
              ELSE [acc EXCEPT !.query_end = i, !.found_space = TRUE]
    ELSE IF At(s, i) = "?" /\ acc.query_start = 0
         THEN ScanTarget(s, i + 1, line_end,
                  [acc EXCEPT !.path_end = i, !.query_start = i + 1])
    ELSE ScanTarget(s, i + 1, line_end, acc)

\* `while pos < len && (buf[pos] == b' ' || buf[pos] == b'\t')`
RECURSIVE SkipWhitespace(_, _)
SkipWhitespace(s, pos) ==
    IF pos < Len(s) /\ (At(s, pos) = SP \/ At(s, pos) = HT)
    THEN SkipWhitespace(s, pos + 1)
    ELSE pos

\* "Skip to next line": step over '\r' and then over '\n' when present
SkipLineEnd(s, line_end) ==
    LET p1 == IF line_end < Len(s) /\ At(s, line_end) = CR THEN line_end + 1 ELSE line_end
    IN  IF p1 < Len(s) /\ At(s, p1) = LF THEN p1 + 1 ELSE p1

\* a variant of the store that writes each new quadruple in front
StoreHeader_Prepend(r, quad) ==
    IF r.headers_count < MAX_HEADERS
    THEN [r EXCEPT !.header_offsets = quad \o @,
                   !.headers_count = @ + 1]
    ELSE r

\* a variant of the store that forgets the MAX_HEADERS cap
StoreHeader_NoCap(r, quad) ==
    [r EXCEPT !.header_offsets = @ \o quad, !.headers_count = @ + 1]

\* "Store header offsets": header_count doubles as the write index
StoreHeader(r, quad) ==
    IF r.headers_count < MAX_HEADERS
    THEN [r EXCEPT !.header_offsets = @ \o quad,
                   !.headers_count = @ + 1]
    ELSE r

\* a variant of the header step that takes a '\r' in the last byte of the
\* buffer for the blank line
HeaderStep_LoneCrEnds(s, pos, r) ==
    LET len == Len(s)
        colon == memchr(":", s, pos)
        value_start == SkipWhitespace(s, colon + 1)
        line_end == memchr2(CR, LF, s, value_start)
    IN  IF pos >= len THEN [kind |-> "return", next |-> pos, r |-> r]
        ELSE IF At(s, pos) = CR /\ pos + 1 >= len
             THEN [kind |-> "break", next |-> pos + 1, r |-> r]
        ELSE IF At(s, pos) = CR /\ At(s, pos + 1) = LF
             THEN [kind |-> "break", next |-> pos + 2, r |-> r]
        ELSE IF At(s, pos) = LF
             THEN [kind |-> "break", next |-> pos + 1, r |-> r]
        ELSE IF colon = NotFound THEN [kind |-> "return", next |-> pos, r |-> r]
        ELSE IF line_end = NotFound THEN [kind |-> "return", next |-> pos, r |-> r]
        ELSE [kind |-> "continue", next |-> SkipLineEnd(s, line_end),
              r |-> StoreHeader(r, <<pos, colon, value_start, line_end>>)]

\* one pass through the body of the header loop at offset pos: "return" (an
\* early return), "break" (the blank line, next = body start) or "continue"
\* (a header line, next = start of the following line)
HeaderStep(s, pos, r) ==
    LET len == Len(s)
        colon == memchr(":", s, pos)
        value_start == SkipWhitespace(s, colon + 1)
        line_end == memchr2(CR, LF, s, value_start)
    IN  IF pos >= len THEN [kind |-> "return", next |-> pos, r |-> r]
        ELSE IF At(s, pos) = CR /\ pos + 1 >= len
             THEN [kind |-> "return", next |-> pos, r |-> r]
        ELSE IF At(s, pos) = CR /\ At(s, pos + 1) = LF
             THEN [kind |-> "break", next |-> pos + 2, r |-> r]
        ELSE IF At(s, pos) = LF
             THEN [kind |-> "break", next |-> pos + 1, r |-> r]
        ELSE IF colon = NotFound THEN [kind |-> "return", next |-> pos, r |-> r]
        ELSE IF line_end = NotFound THEN [kind |-> "return", next |-> pos, r |-> r]
        ELSE [kind |-> "continue", next |-> SkipLineEnd(s, line_end),
              r |-> StoreHeader(r, <<pos, colon, value_start, line_end>>)]

\* a variant of the loop that reports the end of the buffer as body_start
RECURSIVE HeaderLoop_BodyAtEnd(_, _, _, _)
HeaderLoop_BodyAtEnd(s, pos, r, before) ==
    LET st == HeaderStep(s, pos, r)
    IN  IF st.kind = "continue" THEN HeaderLoop_BodyAtEnd(s, st.next, st.r, before)
        ELSE IF st.kind = "break"
             THEN [st.r EXCEPT !.body_start = Len(s), !.state = 1]
        ELSE [before EXCEPT !.header_offsets = st.r.header_offsets]

\* the header loop and what follows it; r carries the local header_count (in
\* headers_count) and the header_offsets written so far.  An early return
\* hands back the ParsedRequest as it stood before the loop (state 0,
\* headers_count 0); header_offsets, the caller's array, keeps what was written.
RECURSIVE HeaderLoop(_, _, _, _)
HeaderLoop(s, pos, r, before) ==
    LET st == HeaderStep(s, pos, r)
    IN  IF st.kind = "continue" THEN HeaderLoop(s, st.next, st.r, before)
        ELSE IF st.kind = "break"
             THEN [st.r EXCEPT !.body_start = st.next, !.state = 1]
        ELSE [before EXCEPT !.header_offsets = st.r.header_offsets]

\* parse_request
parse_request(s) ==
    LET len == Len(s)
        r0 == DefaultResult
    IN
    IF TooShort(len) THEN r0
    ELSE LET method_end == MethodEnd(s) IN
    IF method_end = NotFound THEN r0
    ELSE LET m == MethodParse(Slice(s, 0, method_end)) IN
    IF m = NONE THEN [r0 EXCEPT !.state = 2]
    ELSE LET pos == method_end + 1
             r1 == [r0 EXCEPT !.method = m, !.path_start = pos]
             line_end == memchr2(CR, LF, s, pos)
         IN
    IF line_end = NotFound THEN r1
    ELSE LET sc == ScanTarget(s, pos, line_end,
                       [path_end |-> pos, query_start |-> 0, query_end |-> 0,
                        found_space |-> FALSE])
         IN
    IF ~sc.found_space THEN r1
    ELSE LET r2 == [r1 EXCEPT !.path_end = sc.path_end,
                              !.query_start = sc.query_start,
                              !.query_end = sc.query_end]
         IN
    IF line_end + 1 >= len THEN r2
    ELSE LET pos2 == IF At(s, line_end) = CR THEN line_end + 2 ELSE line_end + 1
         IN  HeaderLoop(s, pos2, r2, r2)

(***************************************************************************)
(* Requests a client may put on the wire                                   *)
(***************************************************************************)
HTTPVER == <<"H", "T", "T", "P", "/", "1", ".", "1">>
CRLF == <<CR, LF>>

Methods == {GET, POST, PUT, DELETE, PATCH, HEAD, OPTIONS, CONNECT, TRACE}

\* leading tokens that are no method literal: empty, lowercase, truncated,
\* extended, 7 bytes long, 8 bytes long
BadTokens ==
    { <<>>, <<"g", "e", "t">>, <<"G">>, <<"G", "E", "T", "X">>,
      <<"O", "P", "T", "I", "O", "N", "X">>,
      <<"P", "R", "O", "P", "F", "I", "N", "D">> }

TailBytes == {"x", SP, CR, LF, ":"}

\* "<token> / HTTP/1.1\r\n\r\n" followed by arbitrary bytes
MinimalRequest(token, tail) ==
    token \o <<SP, "/", SP>> \o HTTPVER \o CRLF \o CRLF \o tail

MinimalRequests ==
    {MinimalRequest(tok, tail) : tok \in Methods \cup BadTokens,
                                 tail \in SeqsUpTo(TailBytes, MaxTail)}

\* the shortest requests with bare-LF line ends, which are under 18 bytes
ShortRequests ==
    {m \o <<SP, "/", SP>> \o HTTPVER \o <<LF, LF>> \o tail :
        m \in {GET, PUT}, tail \in SeqsUpTo({"x"}, MaxTail)}

Targets ==
    { <<"/">>, <<"/", "a">>, <<"/", "a", "?", "b">>, <<"/", "?">>,
      <<"/", "a", "?", "b", "?", "c">>, <<>>, <<"?", "b">>, <<"/", "a", ":", "b">> }

Versions == {<<SP>> \o HTTPVER, <<>>, <<SP>>}

LineEnds == {CRLF, <<LF>>, <<CR>>}

\* request lines of every shape, followed by one Host header and the blank line
RequestLines ==
    {GET \o <<SP>> \o target \o version \o eol
         \o <<"H", "o", "s", "t", ":", SP, "x">> \o eol \o eol :
        target \in Targets, version \in Versions, eol \in LineEnds}

HeaderShapes ==
    { <<"a", ":", "b">>, <<"a", ":", SP, "b">>, <<"a", ":", HT, SP, "b">>,
      <<"a", ":">>, <<"a", "b">>, <<"a", ":", "b", ":", "c">> }

\* header blocks of up to MaxHeaderLines lines after a fixed request line
HeaderBlocks ==
    {GET \o <<SP, "/", "a", "?", "b", SP>> \o HTTPVER \o eol
         \o Concat([i \in 1..Len(hs) |-> hs[i] \o eol]) \o term \o body :
        eol \in {CRLF, <<LF>>}, hs \in SeqsUpTo(HeaderShapes, MaxHeaderLines),
        term \in {CRLF, <<LF>>, <<>>}, body \in {<<>>, <<"x">>}}

\* the i-th (0-based) of the well-formed header lines of a long request
HeaderLine(i, sep, eol) ==
    <<"h">> \o sep \o <<IF i % 2 = 0 THEN "0" ELSE "1">> \o eol

ManyHeadersLine(eol) == GET \o <<SP, "/", SP>> \o HTTPVER \o eol

\* the n header lines one after the other
HeaderLines(n, sep, eol) ==
    LET w == Len(HeaderLine(0, sep, eol))
    IN  [j \in 1..(n * w) |-> HeaderLine((j - 1) \div w, sep, eol)[((j - 1) % w) + 1]]

\* a request with n well-formed header lines, the blank line and one body byte
ManyHeadersRequest(n, sep, eol) ==
    ManyHeadersLine(eol) \o HeaderLines(n, sep, eol) \o eol \o <<"x">>

Separators == {<<":">>, <<":", SP>>}

ManyHeadersRequests ==
    {ManyHeadersRequest(n, sep, eol) :
        n \in (MAX_HEADERS - 1)..(MAX_HEADERS + MaxExtraHeaders),
        sep \in Separators, eol \in {CRLF, <<LF>>}}

Messages ==
    MinimalRequests \cup ShortRequests \cup RequestLines \cup HeaderBlocks
        \cup ManyHeadersRequests

(***************************************************************************)
(* The connection: bytes arrive in chunks and the whole accumulated buffer *)
(* is parsed again after every read.                                       *)
(***************************************************************************)
RouterIdle ==
    /\ trees = <<>>
    /\ inserted = <<>>
    /\ found = <<>>

ParserInit ==
    /\ wire \in Messages
    /\ buf = <<>>
    /\ result = parse_request(<<>>)
    /\ RouterIdle
    /\ CoreIdle

\* one read of k bytes, then parse_request over everything received
Recv(k) ==
    /\ k <= Len(wire)
    /\ buf' = buf \o SubSeq(wire, 1, k)
    /\ wire' = SubSeq(wire, k + 1, Len(wire))
    /\ result' = parse_request(buf')
    /\ UNCHANGED <<routerVars, coreVars>>

ParserNext == \E k \in 1..MaxChunk : Recv(k)

ParserSpec == ParserInit /\ [][ParserNext]_vars

(***************************************************************************)
(* gust-router/src/lib.rs                                                  *)
(*                                                                         *)
(* An Option is a sequence of length 0 (None) or 1 (Some).  A HashMap is a *)
(* function whose domain is the set of its keys.                           *)
(***************************************************************************)
\* most insert calls made on one router
MaxInserts == 2

MapPut(m, k, v) == [x \in (DOMAIN m) \cup {k} |-> IF x = k THEN v ELSE m[x]]

\* char::to_uppercase on the letters the model uses
ToUpperChar(c) ==
    CASE c = "g" -> "G"
      [] c = "e" -> "E"
      [] c = "t" -> "T"
      [] c = "p" -> "P"
      [] c = "o" -> "O"
      [] c = "s" -> "S"
      [] OTHER -> c

\* str::to_uppercase
RECURSIVE to_uppercase(_)
to_uppercase(s) ==
    IF s = <<>> THEN <<>> ELSE <<ToUpperChar(Head(s))>> \o to_uppercase(Tail(s))

\* path.split('/'): the pieces between slashes, empty ones included
RECURSIVE SplitFrom(_, _, _, _)
SplitFrom(s, i, cur, out) ==
    IF i > Len(s) THEN Append(out, cur)
    ELSE IF s[i] = "/" THEN SplitFrom(s, i + 1, <<>>, Append(out, cur))
    ELSE SplitFrom(s, i + 1, Append(cur, s[i]), out)

split(s) == SplitFrom(s, 1, <<>>, <<>>)

\* a variant of the segment filter that keeps empty segments
NonEmpty_KeepAll(pieces) == pieces

\* .filter(|s| !s.is_empty())
NonEmpty(pieces) == SelectSeq(pieces, LAMBDA x : x # <<>>)

\* path.split('/').filter(|s| !s.is_empty()).collect()
path_segments(path) == NonEmpty(split(path))

\* segments.join("/")
RECURSIVE join(_)
join(segments) ==
    IF segments = <<>> THEN <<>>
    ELSE IF Len(segments) = 1 THEN segments[1]
    ELSE segments[1] \o <<"/">> \o join(Tail(segments))

\* Node::default()
EmptyNode ==
    [children |-> <<>>, param_child |-> <<>>, wildcard_child |-> <<>>,
     handler_id |-> <<>>]

\* a variant of the wildcard name that keeps the empty name of a bare '*'
WildcardName_KeepEmpty(name) == name

\* `if name.is_empty() { "*" } else { name }`
WildcardName(name) == IF name = <<>> THEN <<"*">> ELSE name

\* segment.strip_prefix(c).is_some()
StartsWith(segment, c) == segment # <<>> /\ segment[1] = c

\* a variant of the insertion that replaces an existing parameter child, and
\* with it the routes below, instead of descending into it
RECURSIVE insert_node_ReplaceParam(_, _, _)
insert_node_ReplaceParam(node, segments, handler_id) ==
    IF segments = <<>> THEN [node EXCEPT !.handler_id = <<handler_id>>]
    ELSE LET segment == Head(segments)
             rest == Tail(segments)
         IN  IF StartsWith(segment, ":")
             THEN [node EXCEPT !.param_child =
                      <<[name |-> Tail(segment),
                         node |-> insert_node_ReplaceParam(EmptyNode, rest, handler_id)]>>]
             ELSE IF StartsWith(segment, "*")
             THEN [node EXCEPT !.wildcard_child =
                      <<[name |-> WildcardName(Tail(segment)),
                         handler_id |-> handler_id]>>]
             ELSE LET child == IF segment \in DOMAIN node.children
                               THEN node.children[segment]
                               ELSE EmptyNode
                  IN  [node EXCEPT !.children =
                          MapPut(@, segment,
                                 insert_node_ReplaceParam(child, rest, handler_id))]

\* a variant of the insertion that makes the node where the pattern ends a
\* new node holding the handler only
RECURSIVE insert_node_FreshEnd(_, _, _)
insert_node_FreshEnd(node, segments, handler_id) ==
    IF segments = <<>> THEN [EmptyNode EXCEPT !.handler_id = <<handler_id>>]
    ELSE LET segment == Head(segments)
             rest == Tail(segments)
         IN  IF StartsWith(segment, ":")
             THEN LET param == IF node.param_child = <<>>
                               THEN [name |-> Tail(segment), node |-> EmptyNode]
                               ELSE node.param_child[1]
                  IN  [node EXCEPT !.param_child =
                          <<[name |-> param.name,
                             node |-> insert_node_FreshEnd(param.node, rest, handler_id)]>>]
             ELSE IF StartsWith(segment, "*")
             THEN [node EXCEPT !.wildcard_child =
                      <<[name |-> WildcardName(Tail(segment)),
                         handler_id |-> handler_id]>>]
             ELSE LET child == IF segment \in DOMAIN node.children
                               THEN node.children[segment]
                               ELSE EmptyNode
                  IN  [node EXCEPT !.children =
                          MapPut(@, segment,
                                 insert_node_FreshEnd(child, rest, handler_id))]

\* a variant of the parameter child that takes the name of every insert
ParamChild_Rename(node, name) ==
    [name |-> name,
     node |-> IF node.param_child = <<>> THEN EmptyNode ELSE node.param_child[1].node]

\* the ParamNode an insert descends into: created with the segment's name
\* `if node.param_child.is_none()`, otherwise the one that is there
ParamChild(node, name) ==
    IF node.param_child = <<>> THEN [name |-> name, node |-> EmptyNode]
    ELSE node.param_child[1]

\* Router::insert_node
RECURSIVE insert_node(_, _, _)
insert_node(node, segments, handler_id) ==
    IF segments = <<>> THEN [node EXCEPT !.handler_id = <<handler_id>>]
    ELSE LET segment == Head(segments)
             rest == Tail(segments)
         IN  IF StartsWith(segment, ":")
             THEN LET param == ParamChild(node, Tail(segment))
                  IN  [node EXCEPT !.param_child =
                          <<[name |-> param.name,
                             node |-> insert_node(param.node, rest, handler_id)]>>]
             ELSE IF StartsWith(segment, "*")
             THEN [node EXCEPT !.wildcard_child =
                      <<[name |-> WildcardName(Tail(segment)),
                         handler_id |-> handler_id]>>]
             ELSE LET child == IF segment \in DOMAIN node.children
                               THEN node.children[segment]
                               ELSE EmptyNode
                  IN  [node EXCEPT !.children =
                          MapPut(@, segment, insert_node(child, rest, handler_id))]

\* Router::insert, as the value of Router.trees after the call
insert(t, method, path, handler_id) ==
    LET key == to_uppercase(method)
        tree == IF key \in DOMAIN t THEN t[key] ELSE EmptyNode
    IN  MapPut(t, key, insert_node(tree, path_segments(path), handler_id))

NoMatch(params) == [match |-> <<>>, params |-> params]

\* a variant of the backtracking that leaves the abandoned pair in `params`
Pop_Keep(params) == params

\* params.pop()
Pop(params) == SubSeq(params, 1, Len(params) - 1)

\* a variant of the wildcard capture that leaves out the current segment
RestPath_SkipCurrent(segments) == join(Tail(segments))

\* `let rest_path = segments.join("/")`
RestPath(segments) == join(segments)

\* a variant of the static lookup that never finds a child, so that the
\* parameter child is always preferred
StaticChild_Never(node, segment) == <<>>

\* Priority 1: the static child keyed by the segment, when there is one
StaticChild(node, segment) ==
    IF segment \in DOMAIN node.children THEN <<node.children[segment]>> ELSE <<>>

\* a variant of the lookup that commits to the static child once it exists
\* and never comes back to the parameter or the wildcard child
RECURSIVE find_node_NoBacktrack(_, _, _)
find_node_NoBacktrack(node, segments, params) ==
    IF segments = <<>>
    THEN [match |-> IF node.handler_id = <<>> THEN <<>>
                    ELSE <<[handler_id |-> node.handler_id[1], params |-> params]>>,
          params |-> params]
    ELSE LET segment == Head(segments)
             rest == Tail(segments)
             child == StaticChild(node, segment)
         IN  IF child # <<>> THEN find_node_NoBacktrack(child[1], rest, params)
             ELSE IF node.param_child # <<>>
             THEN LET param == node.param_child[1]
                  IN  find_node_NoBacktrack(param.node, rest,
                          Append(params, <<param.name, segment>>))
             ELSE IF node.wildcard_child # <<>>
             THEN LET wildcard == node.wildcard_child[1]
                      pushed == Append(params, <<wildcard.name, RestPath(segments)>>)
                  IN  [match |-> <<[handler_id |-> wildcard.handler_id,
                                    params |-> pushed]>>,
                       params |-> pushed]
             ELSE NoMatch(params)

\* a variant of the end of the path that lets the node's wildcard child
\* match the empty rest when the node has no handler of its own
PathEnd_EmptyWildcard(node, params) ==
    IF node.handler_id = <<>> /\ node.wildcard_child # <<>>
    THEN LET wildcard == node.wildcard_child[1]
             pushed == Append(params, <<wildcard.name, <<>>>>)
         IN  [match |-> <<[handler_id |-> wildcard.handler_id, params |-> pushed]>>,
              params |-> pushed]
    ELSE [match |-> IF node.handler_id = <<>> THEN <<>>
                    ELSE <<[handler_id |-> node.handler_id[1], params |-> params]>>,
          params |-> params]

\* `if segments.is_empty()`: the node's own handler_id decides
PathEnd(node, params) ==
    [match |-> IF node.handler_id = <<>> THEN <<>>
               ELSE <<[handler_id |-> node.handler_id[1], params |-> params]>>,
     params |-> params]

\* Router::find_node; the result carries the Option<Match> and the `params`
\* vector as the call leaves it
RECURSIVE find_node(_, _, _)
find_node(node, segments, params) ==
    IF segments = <<>> THEN PathEnd(node, params)
    ELSE LET segment == Head(segments)
             rest == Tail(segments)
             child == StaticChild(node, segment)
             s1 == IF child # <<>> THEN find_node(child[1], rest, params)
                   ELSE NoMatch(params)
         IN  IF s1.match # <<>> THEN s1
             ELSE LET s2 == IF node.param_child # <<>>
                            THEN LET param == node.param_child[1]
                                     r == find_node(param.node, rest,
                                              Append(s1.params, <<param.name, segment>>))
                                 IN  IF r.match # <<>> THEN r
                                     ELSE NoMatch(Pop(r.params))
                            ELSE NoMatch(s1.params)
                  IN  IF s2.match # <<>> THEN s2
                      ELSE IF node.wildcard_child # <<>>
                      THEN LET wildcard == node.wildcard_child[1]
                               pushed == Append(s2.params,
                                                <<wildcard.name, RestPath(segments)>>)
                           IN  [match |-> <<[handler_id |-> wildcard.handler_id,
                                             params |-> pushed]>>,
                                params |-> pushed]
                      ELSE NoMatch(s2.params)

\* a variant of the tree lookup that falls back to the GET tree
TreeFor_GetFallback(t, method) ==
    LET key == to_uppercase(method)
    IN  IF key \in DOMAIN t THEN <<t[key]>>
        ELSE IF <<"G", "E", "T">> \in DOMAIN t THEN <<t[<<"G", "E", "T">>]>>
        ELSE <<>>

\* a variant of the tree lookup that forgets to uppercase the method
TreeFor_NoUppercase(t, method) ==
    IF method \in DOMAIN t THEN <<t[method]>> ELSE <<>>

\* the tree `find` searches: self.trees.get(&method.to_uppercase())
TreeFor(t, method) ==
    LET key == to_uppercase(method)
    IN  IF key \in DOMAIN t THEN <<t[key]>> ELSE <<>>

\* Router::find
find(t, method, path) ==
    LET tree == TreeFor(t, method)
    IN  IF tree = <<>> THEN <<>>
        ELSE find_node(tree[1], path_segments(path), <<>>).match

(***************************************************************************)
(* Routes registered and paths looked up                                   *)
(***************************************************************************)
InsertMethods == {<<"G", "E", "T">>, <<"g", "e", "t">>, <<"P", "O", "S", "T">>}

FindMethods ==
    {<<"G", "E", "T">>, <<"G", "e", "t">>, <<"P", "O", "S", "T">>,
     <<"H", "E", "A", "D">>}

Patterns ==
    { <<"/">>,
      <<"/", "u">>,
      <<"/", "u", "/", "m">>,
      <<"/", "/", "u", "/", "/", "m", "/">>,
      <<"/", "u", "/", ":", "i">>,
      <<"/", "u", "/", ":", "j">>,
      <<"/", "u", "/", "*", "p">>,
      <<"/", "u", "/", "*">> }

ProbePaths ==
    { <<>>,
      <<"/">>,
      <<"/", "u">>,
      <<"/", "u", "/">>,
      <<"/", "u", "/", "m">>,
      <<"/", "/", "u", "/", "/", "m">>,
      <<"/", "u", "/", "x">>,
      <<"/", "u", "/", "x", "/", "y">>,
      <<"/", "u", "/", "/", "x", "/", "y", "/">>,
      <<"/", "m">> }

ParserIdle ==
    /\ wire = <<>>
    /\ buf = <<>>
    /\ result = DefaultResult

RouterInit ==
    /\ trees = <<>>
    /\ inserted = <<>>
    /\ found = <<>>
    /\ ParserIdle
    /\ CoreIdle

\* router.insert(method, path, handler_id); handlers are numbered in the
\* order of registration, and at most `limit` routes are registered
InsertUpTo(limit, method, path) ==
    /\ Len(inserted) < limit
    /\ LET handler_id == Len(inserted)
       IN  /\ trees' = insert(trees, method, path, handler_id)
           /\ inserted' = Append(inserted,
                  [method |-> method, path |-> path, handler_id |-> handler_id])
    /\ found' = <<>>
    /\ UNCHANGED <<parserVars, coreVars>>

Insert(method, path) == InsertUpTo(MaxInserts, method, path)

\* router.find(method, path); `found` keeps the one call observed since the
\* last insert, and its result (find itself leaves the router as it is)
Find(method, path) ==
    /\ found = <<>>
    /\ found' = <<[method |-> method, path |-> path,
                   result |-> find(trees, method, path)]>>
    /\ UNCHANGED <<trees, inserted, parserVars, coreVars>>

RouterNext ==
    \/ \E method \in InsertMethods, path \in Patterns : Insert(method, path)
    \/ \E method \in FindMethods, path \in ProbePaths : Find(method, path)

RouterSpec == RouterInit /\ [][RouterNext]_vars

(***************************************************************************)
(* Nested routes of one method, where a lookup has to come back from a     *)
(* subtree that does not match                                             *)
(***************************************************************************)
\* how many nested routes are registered
MaxRoutes == 3

NestedPatterns ==
    { <<"/">>,
      <<"/", "a", "/", "b">>,
      <<"/", "a", "/", "b", "/", "c">>,
      <<"/", "a", "/", ":", "x", "/", "d">>,
      <<"/", "a", "/", ":", "z", "/", "d">>,
      <<"/", "a", "/", ":", "v">>,
      <<"/", "a", "/", "*">>,
      <<"/", ":", "y", "/", "b", "/", "d">>,
      <<"/", "*", "r">> }

NestedPaths ==
    { <<"/">>,
      <<"/", "a">>,
      <<"/", "a", "/", "b">>,
      <<"/", "a", "/", "v">>,
      <<"/", "a", "/", "b", "/", "c">>,
      <<"/", "a", "/", "b", "/", "d">>,
      <<"/", "a", "/", "v", "/", "u">>,
      <<"/", "b", "/", "b", "/", "d">>,
      <<"/", "a", "/", "b", "/", "c", "/", "d">>,
      <<"/", "c">> }

NestedNext ==
    \/ \E path \in NestedPatterns : InsertUpTo(MaxRoutes, GET, path)
    \/ \E path \in NestedPaths : Find(GET, path)

NestedSpec == RouterInit /\ [][NestedNext]_vars

(***************************************************************************)
(* gust-core/src/middleware/mod.rs and handle_request of gust-napi         *)
(***************************************************************************)
\* how many middlewares are registered
MaxMiddlewares == 3

\* the middlewares the server can switch on (enable_cors, enable_rate_limit,
\* enable_security); the same kind may be added more than once
MiddlewareKinds == {"cors", "rate_limit", "security"}

\* a request as the pipeline sees it: whether a registered route serves it,
\* only the fallback handler, or nothing; and the kinds of middleware whose
\* before hook answers it with an early response
Requests ==
    [route : {"routed", "fallback", "unrouted"}, early : SUBSET MiddlewareKinds]

Hook(h, m, at) == [hook |-> h, m |-> m, at |-> at]

\* Middleware::before of the i-th middleware: Option<Response>
mw_before(ms, i, req) ==
    IF ms[i] \in req.early THEN <<[from |-> ms[i], at |-> i]>> ELSE <<>>

\* a variant of run_before that goes on after an early response and returns
\* the last one
RECURSIVE run_before_NoShortCircuit(_, _, _, _)
run_before_NoShortCircuit(ms, req, i, log) ==
    IF i > Len(ms) THEN [res |-> <<>>, hooks |-> log]
    ELSE LET res == mw_before(ms, i, req)
             rest == run_before_NoShortCircuit(ms, req, i + 1,
                         Append(log, Hook("before", ms[i], i)))
         IN  IF res # <<>> /\ rest.res = <<>>
             THEN [res |-> res, hooks |-> rest.hooks]
             ELSE rest

\* MiddlewareChain::run_before from the i-th middleware on; `log` is the
\* hooks invoked so far
RECURSIVE run_before(_, _, _, _)
run_before(ms, req, i, log) ==
    IF i > Len(ms) THEN [res |-> <<>>, hooks |-> log]
    ELSE LET res == mw_before(ms, i, req)
             log2 == Append(log, Hook("before", ms[i], i))
         IN  IF res # <<>> THEN [res |-> res, hooks |-> log2]
             ELSE run_before(ms, req, i + 1, log2)

\* a variant of run_after that walks the chain front to back
run_after_Forward(ms, log) ==
    log \o [j \in 1..Len(ms) |-> Hook("after", ms[j], j)]

\* MiddlewareChain::run_after: `self.middlewares.iter().rev()`
run_after(ms, log) ==
    log \o [j \in 1..Len(ms) |->
                Hook("after", ms[Len(ms) + 1 - j], Len(ms) + 1 - j)]

HandlerCall == Hook("handler", "handler", 0)
HandlerResponse == [from |-> "handler", at |-> 0]
NotFound404 == [from |-> "not_found", at |-> 0]

ChainInit ==
    /\ ChainIdle
    /\ ParserIdle
    /\ RouterIdle
    /\ ServerIdle
    /\ BreakerIdle
    /\ BulkheadIdle
    /\ LimiterIdle
    /\ ThreadsIdle

\* state.middleware.write().await.add(m)
Add(m) ==
    /\ Len(middlewares) < MaxMiddlewares
    /\ middlewares' = Append(middlewares, m)
    /\ UNCHANGED <<request, pc, has_middleware, invoked, response>>
    /\ UNCHANGED notChain

\* handle_request up to the read of has_middleware: the fast paths serve a
\* request that a registered route matches, without any middleware
Begin(req) ==
    /\ pc = "idle"
    /\ request' = <<req>>
    /\ IF req.route = "routed"
       THEN /\ invoked' = <<HandlerCall>>
            /\ response' = <<HandlerResponse>>
            /\ pc' = "done"
            /\ UNCHANGED has_middleware
       ELSE /\ invoked' = <<>>
            /\ response' = <<>>
            /\ has_middleware' = (middlewares # <<>>)
            /\ pc' = "checked"
    /\ UNCHANGED middlewares
    /\ UNCHANGED notChain

\* `if !has_middleware`: the fallback handler or 404, no middleware
NoMiddleware ==
    /\ pc = "checked"
    /\ ~has_middleware
    /\ IF request[1].route = "fallback"
       THEN invoked' = <<HandlerCall>> /\ response' = <<HandlerResponse>>
       ELSE invoked' = <<>> /\ response' = <<NotFound404>>
    /\ pc' = "done"
    /\ UNCHANGED <<middlewares, request, has_middleware>>
    /\ UNCHANGED notChain

\* `middleware.run_before(&mut mw_req)` under the read lock; an early
\* response is returned at once
RunBefore ==
    /\ pc = "checked"
    /\ has_middleware
    /\ LET rb == run_before(middlewares, request[1], 1, invoked)
       IN  /\ invoked' = rb.hooks
           /\ response' = rb.res
           /\ pc' = IF rb.res # <<>> THEN "done" ELSE "handler"
    /\ UNCHANGED <<middlewares, request, has_middleware>>
    /\ UNCHANGED notChain

\* the fallback handler is called, or the response is 404
CallHandler ==
    /\ pc = "handler"
    /\ IF request[1].route = "fallback"
       THEN invoked' = Append(invoked, HandlerCall) /\ response' = <<HandlerResponse>>
       ELSE invoked' = invoked /\ response' = <<NotFound404>>
    /\ pc' = "after"
    /\ UNCHANGED <<middlewares, request, has_middleware>>
    /\ UNCHANGED notChain

\* `middleware.run_after(req, &mut our_response)` under the read lock
RunAfter ==
    /\ pc = "after"
    /\ invoked' = run_after(middlewares, invoked)
    /\ pc' = "done"
    /\ UNCHANGED <<middlewares, request, has_middleware, response>>
    /\ UNCHANGED notChain

\* the response is handed to hyper
Respond ==
    /\ pc = "done"
    /\ pc' = "idle"
    /\ UNCHANGED <<middlewares, request, has_middleware, invoked, response>>
    /\ UNCHANGED notChain

ChainNext ==
    \/ \E m \in MiddlewareKinds : Add(m)
    \/ \E req \in Requests : Begin(req)
    \/ NoMiddleware
    \/ RunBefore
    \/ CallHandler
    \/ RunAfter
    \/ Respond

ChainSpec == ChainInit /\ [][ChainNext]_vars

(***************************************************************************)
(* ConnectionTracker (gust-core/src/server.rs) with the accept loop and    *)
(* graceful_shutdown of GustServer (gust-napi/src/lib.rs).  The accept     *)
(* loop, every connection task and graceful_shutdown run as separate tasks *)
(* of a multi-threaded runtime; one step is one atomic access.             *)
(***************************************************************************)
\* how many connections are open at a time
MaxConnections == 3

ServerInit ==
    /\ ServerIdle
    /\ BreakerIdle
    /\ BulkheadIdle
    /\ LimiterIdle
    /\ ThreadsIdle
    /\ ChainIdle
    /\ ParserIdle
    /\ RouterIdle

\* `listener.accept().await` hands over a stream and the loop reads
\* `tracker.is_shutting_down()`: the stream is dropped during shutdown
Accept ==
    /\ accept_pc = "accept"
    /\ open < MaxConnections
    /\ accept_pc' = IF shutting_down THEN "accept" ELSE "admit"
    /\ UNCHANGED <<active, shutting_down, open, shutdown_sent, gs_pc, gs_timeout,
                   drained, shutdown_pc>>
    /\ UNCHANGED notServer

\* `conn_tracker.increment()` and the spawn of the connection task
Admit ==
    /\ accept_pc = "admit"
    /\ active' = active + 1
    /\ open' = open + 1
    /\ accept_pc' = "accept"
    /\ UNCHANGED <<shutting_down, shutdown_sent, gs_pc, gs_timeout, drained, shutdown_pc>>
    /\ UNCHANGED notServer

\* a connection task ends: `conn_tracker.decrement()`
Complete ==
    /\ open > 0
    /\ active' = active - 1
    /\ open' = open - 1
    /\ UNCHANGED <<shutting_down, accept_pc, shutdown_sent, gs_pc, gs_timeout,
                   drained, shutdown_pc>>
    /\ UNCHANGED notServer

\* the `shutdown_rx` branch of select!: taken while the loop waits in
\* accept(), it drops the loop and calls tracker.start_shutdown()
StopAccepting ==
    /\ accept_pc = "accept"
    /\ shutdown_sent
    /\ shutting_down' = TRUE
    /\ accept_pc' = "stopped"
    /\ UNCHANGED <<active, open, shutdown_sent, gs_pc, gs_timeout, drained, shutdown_pc>>
    /\ UNCHANGED notServer

\* graceful_shutdown(timeout_ms): `self.connection_tracker.start_shutdown()`
StartShutdown(with_timeout) ==
    /\ gs_pc = "idle"
    /\ shutting_down' = TRUE
    /\ gs_timeout' = with_timeout
    /\ gs_pc' = "signal"
    /\ UNCHANGED <<active, open, accept_pc, shutdown_sent, drained, shutdown_pc>>
    /\ UNCHANGED notServer

\* `if let Some(tx) = self.shutdown_tx.write().await.take() { tx.send(()) }`
SendSignal ==
    /\ gs_pc = "signal"
    /\ shutdown_sent' = TRUE
    /\ gs_pc' = "wait"
    /\ UNCHANGED <<active, shutting_down, open, accept_pc, gs_timeout, drained, shutdown_pc>>
    /\ UNCHANGED notServer

\* one turn of the drain loop: `count() == 0` returns true, an elapsed
\* timeout returns false, otherwise the task sleeps 10 ms
Poll(elapsed) ==
    /\ gs_pc = "wait"
    /\ IF active = 0
       THEN drained' = <<TRUE>> /\ gs_pc' = "returned"
       ELSE IF gs_timeout /\ elapsed
       THEN drained' = <<FALSE>> /\ gs_pc' = "returned"
       ELSE UNCHANGED <<drained, gs_pc>>
    /\ UNCHANGED <<active, shutting_down, open, accept_pc, shutdown_sent, gs_timeout,
                   shutdown_pc>>
    /\ UNCHANGED notServer

\* shutdown(): `self.connection_tracker.start_shutdown()`
ShutdownNow ==
    /\ shutdown_pc = "idle"
    /\ shutting_down' = TRUE
    /\ shutdown_pc' = "signal"
    /\ UNCHANGED <<active, open, accept_pc, shutdown_sent, gs_pc, gs_timeout, drained>>
    /\ UNCHANGED notServer

\* shutdown(): the signal is sent unless the sender was taken before
ShutdownSignal ==
    /\ shutdown_pc = "signal"
    /\ shutdown_sent' = TRUE
    /\ shutdown_pc' = "returned"
    /\ UNCHANGED <<active, shutting_down, open, accept_pc, gs_pc, gs_timeout, drained>>
    /\ UNCHANGED notServer

ServerNext ==
    \/ Accept
    \/ Admit
    \/ Complete
    \/ StopAccepting
    \/ \E with_timeout \in BOOLEAN : StartShutdown(with_timeout)
    \/ SendSignal
    \/ \E elapsed \in BOOLEAN : Poll(elapsed)
    \/ ShutdownNow
    \/ ShutdownSignal

ServerSpec == ServerInit /\ [][ServerNext]_vars

(***************************************************************************)
(* gust-core/src/middleware/circuit_breaker.rs: CircuitBreaker, one call   *)
(* at a time.  An Instant is a number of ticks; the statistics counters    *)
(* (total_requests, last_failure, ...) do not steer anything and are left  *)
(* out.                                                                    *)
(***************************************************************************)
\* the largest failure_threshold, the last tick of the clock, and the most
\* record_failure calls made on one breaker
MaxThreshold == 3
MaxTime == 5
MaxFailures == 4

Closed == "Closed"
Open == "Open"
HalfOpen == "HalfOpen"

\* configurations: failure_threshold, success_threshold, reset_timeout and
\* failure_window (in ticks)
Configs ==
    [failure_threshold : 1..MaxThreshold, success_threshold : {1, 2},
     reset_timeout : {0, 2}, failure_window : {1, 3}]

\* CircuitBreaker::new
NewBreaker(config) ==
    [config |-> config, state |-> Closed, failures |-> <<>>,
     half_open_successes |-> 0, next_attempt |-> <<>>]

to_open(b, now) ==
    IF b.state # Open
    THEN [b EXCEPT !.state = Open,
                   !.next_attempt = <<now + b.config.reset_timeout>>,
                   !.half_open_successes = 0]
    ELSE b

to_half_open(b) ==
    IF b.state # HalfOpen
    THEN [b EXCEPT !.state = HalfOpen, !.half_open_successes = 0]
    ELSE b

to_closed(b) ==
    IF b.state # Closed
    THEN [b EXCEPT !.state = Closed, !.failures = <<>>, !.half_open_successes = 0]
    ELSE b

\* CircuitBreaker::can_request: the bool returned and the breaker afterwards
can_request(b, now) ==
    IF b.state = Open
    THEN IF b.next_attempt # <<>> /\ now >= b.next_attempt[1]
         THEN [ok |-> TRUE, b |-> to_half_open(b)]
         ELSE [ok |-> FALSE, b |-> b]
    ELSE [ok |-> TRUE, b |-> b]

\* CircuitBreaker::record_success
record_success(b) ==
    IF b.state = HalfOpen
    THEN LET successes == b.half_open_successes + 1
             b1 == [b EXCEPT !.half_open_successes = successes]
         IN  IF successes >= b.config.success_threshold THEN to_closed(b1) ELSE b1
    ELSE b

\* a variant of the pruning that keeps every failure, however old
Retain_KeepAll(failures, window_start) == failures

\* `failures.retain(|t| *t > window_start)`
Retain(failures, window_start) ==
    LET Recent(t) == t > window_start
    IN  SelectSeq(failures, Recent)

\* CircuitBreaker::record_failure
record_failure(b, now) ==
    IF b.state = HalfOpen THEN to_open(b, now)
    ELSE IF b.state = Closed
    THEN LET window_start == now - b.config.failure_window
             failures == Retain(Append(b.failures, now), window_start)
             b1 == [b EXCEPT !.failures = failures]
         IN  IF Len(failures) >= b.config.failure_threshold
             THEN to_open(b1, now)
             ELSE b1
    ELSE b

BreakerInit ==
    /\ breaker \in {<<NewBreaker(config)>> : config \in Configs}
    /\ clock = 0
    /\ allowed = <<>>
    /\ failure_log = <<>>
    /\ opened_at = <<>>
    /\ BulkheadIdle
    /\ LimiterIdle
    /\ ThreadsIdle
    /\ ChainIdle
    /\ ServerIdle
    /\ ParserIdle
    /\ RouterIdle

\* time passes between two calls
Tick ==
    /\ clock < MaxTime
    /\ clock' = clock + 1
    /\ UNCHANGED <<breaker, allowed, failure_log, opened_at>>
    /\ UNCHANGED notBreaker

\* the time of the change to Open that the step from b to b2 made, if any
OpenedAt(b, b2, now, before) ==
    IF b.state # Open /\ b2.state = Open THEN <<now>> ELSE before

CanRequest ==
    /\ LET r == can_request(breaker[1], clock)
       IN  /\ allowed' = <<r.ok>>
           /\ breaker' = <<r.b>>
    /\ UNCHANGED <<clock, failure_log, opened_at>>
    /\ UNCHANGED notBreaker

RecordSuccess ==
    /\ breaker' = <<record_success(breaker[1])>>
    /\ UNCHANGED <<clock, allowed, failure_log, opened_at>>
    /\ UNCHANGED notBreaker

RecordFailure ==
    /\ Len(failure_log) < MaxFailures
    /\ breaker' = <<record_failure(breaker[1], clock)>>
    /\ failure_log' = Append(failure_log, clock)
    /\ opened_at' = OpenedAt(breaker[1], breaker'[1], clock, opened_at)
    /\ UNCHANGED <<clock, allowed>>
    /\ UNCHANGED notBreaker

BreakerNext ==
    \/ Tick
    \/ CanRequest
    \/ RecordSuccess
    \/ RecordFailure

BreakerSpec == BreakerInit /\ [][BreakerNext]_vars

(***************************************************************************)
(* gust-core/src/middleware/circuit_breaker.rs: one CircuitBreaker shared  *)
(* by several threads.  One step is one lock acquisition or one atomic     *)
(* access together with the statements run under it; cb_pc names the step  *)
(* a thread's call will take next.  A guard taken and dropped within one   *)
(* statement is held for that step only; the guards held from one step to  *)
(* the next are read off cb_pc.                                            *)
(***************************************************************************)
\* the threads that call the breaker, the most half-open successes counted,
\* and the last tick of the clock they see
MaxCallers == 2
MaxSuccesses == 3
MaxWait == 2

Callers == 1..MaxCallers

\* the configurations of the shared breaker
SharedConfigs ==
    [failure_threshold : {1, 2}, success_threshold : {1},
     reset_timeout : {1}, failure_window : {2}]

\* the public methods a thread may call, and the first step of each
Entry ==
    [stats |-> "stats_failures", record_success |-> "rs_last_success",
     record_failure |-> "rf_last_failure", open |-> "to_open",
     close |-> "to_closed", reset |-> "reset_state", can_request |-> "cr_state"]

\* the threads inside to_open, to_half_open or to_closed with the write guard
\* of `state`
StateWriters ==
    {t \in DOMAIN cb_pc :
        cb_pc[t] \in {"closed_failures", "closed_store", "open_next", "open_store",
                      "half_store"}}

\* the threads inside stats() with the read guard of `failures`, of
\* `last_failure`, of `last_success`
FailuresReaders ==
    {t \in DOMAIN cb_pc :
        cb_pc[t] \in {"stats_last_failure", "stats_last_success", "stats_state"}}
LastFailureReaders ==
    {t \in DOMAIN cb_pc : cb_pc[t] \in {"stats_last_success", "stats_state"}}
LastSuccessReaders == {t \in DOMAIN cb_pc : cb_pc[t] = "stats_state"}

\* the threads whose guards keep thread t from taking its next step:
\* RwLock::read waits for the writer, RwLock::write for writer and readers
Blockers(t) ==
    (CASE cb_pc[t] \in {"stats_state", "rs_state", "rf_state", "cr_state", "to_open",
                        "to_closed", "to_half_open", "reset_state"} -> StateWriters
       [] cb_pc[t] \in {"closed_failures", "rf_failures", "reset_failures"} ->
              FailuresReaders
       [] cb_pc[t] = "rf_last_failure" -> LastFailureReaders
       [] cb_pc[t] = "rs_last_success" -> LastSuccessReaders
       [] OTHER -> {}) \ {t}

Goto(t, next) == cb_pc' = [cb_pc EXCEPT ![t] = next]

SharedBreakerInit ==
    /\ breaker \in {<<NewBreaker(config)>> : config \in SharedConfigs}
    /\ clock = 0
    /\ allowed = <<>>
    /\ failure_log = <<>>
    /\ opened_at = <<>>
    /\ cb_pc = [t \in Callers |-> "idle"]
    /\ rl_calls = <<>>
    /\ BulkheadIdle
    /\ LimiterIdle
    /\ ChainIdle
    /\ ServerIdle
    /\ ParserIdle
    /\ RouterIdle

\* time passes between two steps
Wait ==
    /\ clock < MaxWait
    /\ clock' = clock + 1
    /\ UNCHANGED <<breaker, allowed, cb_pc>>
    /\ UNCHANGED notSharedBreaker

\* thread t calls one of the public methods
Call(t, op) ==
    /\ cb_pc[t] = "idle"
    /\ Goto(t, Entry[op])
    /\ UNCHANGED <<breaker, clock, allowed>>
    /\ UNCHANGED notSharedBreaker

\* CircuitBreaker::stats: three read guards, then self.state() under them
Stats(t) ==
    /\ Blockers(t) = {}
    /\ \/ cb_pc[t] = "stats_failures" /\ Goto(t, "stats_last_failure")
       \/ cb_pc[t] = "stats_last_failure" /\ Goto(t, "stats_last_success")
       \/ cb_pc[t] = "stats_last_success" /\ Goto(t, "stats_state")
       \/ cb_pc[t] = "stats_state" /\ Goto(t, "idle")
    /\ UNCHANGED <<breaker, clock, allowed>>
    /\ UNCHANGED notSharedBreaker

\* CircuitBreaker::record_success up to the call of to_closed
RecordSuccessSteps(t) ==
    /\ Blockers(t) = {}
    /\ LET b == breaker[1]
           successes == b.half_open_successes + 1
       IN  \/ /\ cb_pc[t] = "rs_last_success"
              /\ Goto(t, "rs_state")
              /\ UNCHANGED breaker
           \/ /\ cb_pc[t] = "rs_state"
              /\ Goto(t, IF b.state = HalfOpen THEN "rs_add" ELSE "idle")
              /\ UNCHANGED breaker
           \/ /\ cb_pc[t] = "rs_add"
              /\ successes <= MaxSuccesses
              /\ breaker' = <<[b EXCEPT !.half_open_successes = successes]>>
              /\ Goto(t, IF successes >= b.config.success_threshold
                         THEN "to_closed" ELSE "idle")
    /\ UNCHANGED <<clock, allowed>>
    /\ UNCHANGED notSharedBreaker

\* CircuitBreaker::record_failure up to the call of to_open
RecordFailureSteps(t) ==
    /\ Blockers(t) = {}
    /\ LET b == breaker[1]
           failures == Retain(Append(b.failures, clock),
                              clock - b.config.failure_window)
       IN  \/ /\ cb_pc[t] = "rf_last_failure"
              /\ Goto(t, "rf_state")
              /\ UNCHANGED breaker
           \/ /\ cb_pc[t] = "rf_state"
              /\ Goto(t, CASE b.state = HalfOpen -> "to_open"
                           [] b.state = Closed -> "rf_failures"
                           [] OTHER -> "idle")
              /\ UNCHANGED breaker
           \/ /\ cb_pc[t] = "rf_failures"
              /\ Len(b.failures) < MaxFailures
              /\ breaker' = <<[b EXCEPT !.failures = failures]>>
              /\ Goto(t, IF Len(failures) >= b.config.failure_threshold
                         THEN "to_open" ELSE "idle")
    /\ UNCHANGED <<clock, allowed>>
    /\ UNCHANGED notSharedBreaker

\* CircuitBreaker::to_open, also all of CircuitBreaker::open
ToOpen(t) ==
    /\ Blockers(t) = {}
    /\ LET b == breaker[1]
       IN  \/ /\ cb_pc[t] = "to_open"
              /\ IF b.state # Open
                 THEN breaker' = <<[b EXCEPT !.state = Open]>> /\ Goto(t, "open_next")
                 ELSE UNCHANGED breaker /\ Goto(t, "idle")
           \/ /\ cb_pc[t] = "open_next"
              /\ breaker' = <<[b EXCEPT !.next_attempt =
                                   <<clock + b.config.reset_timeout>>]>>
              /\ Goto(t, "open_store")
           \/ /\ cb_pc[t] = "open_store"
              /\ breaker' = <<[b EXCEPT !.half_open_successes = 0]>>
              /\ Goto(t, "idle")
    /\ UNCHANGED <<clock, allowed>>
    /\ UNCHANGED notSharedBreaker

\* CircuitBreaker::to_closed, also all of CircuitBreaker::close
ToClosed(t) ==
    /\ Blockers(t) = {}
    /\ LET b == breaker[1]
       IN  \/ /\ cb_pc[t] = "to_closed"
              /\ IF b.state # Closed
                 THEN breaker' = <<[b EXCEPT !.state = Closed]>>
                          /\ Goto(t, "closed_failures")
                 ELSE UNCHANGED breaker /\ Goto(t, "idle")
           \/ /\ cb_pc[t] = "closed_failures"
              /\ breaker' = <<[b EXCEPT !.failures = <<>>]>>
              /\ Goto(t, "closed_store")
           \/ /\ cb_pc[t] = "closed_store"
              /\ breaker' = <<[b EXCEPT !.half_open_successes = 0]>>
              /\ Goto(t, "idle")
    /\ UNCHANGED <<clock, allowed>>
    /\ UNCHANGED notSharedBreaker

\* CircuitBreaker::reset: four statements, each with its own guard
Reset(t) ==
    /\ Blockers(t) = {}
    /\ LET b == breaker[1]
       IN  \/ /\ cb_pc[t] = "reset_state"
              /\ breaker' = <<[b EXCEPT !.state = Closed]>>
              /\ Goto(t, "reset_failures")
           \/ /\ cb_pc[t] = "reset_failures"
              /\ breaker' = <<[b EXCEPT !.failures = <<>>]>>
              /\ Goto(t, "reset_store")
           \/ /\ cb_pc[t] = "reset_store"
              /\ breaker' = <<[b EXCEPT !.half_open_successes = 0]>>
              /\ Goto(t, "reset_next")
           \/ /\ cb_pc[t] = "reset_next"
              /\ breaker' = <<[b EXCEPT !.next_attempt = <<>>]>>
              /\ Goto(t, "idle")
    /\ UNCHANGED <<clock, allowed>>
    /\ UNCHANGED notSharedBreaker

\* CircuitBreaker::can_request up to the call of to_half_open; `allowed`
\* keeps the bool of the last call that returned
CanRequestSteps(t) ==
    /\ Blockers(t) = {}
    /\ LET b == breaker[1]
       IN  \/ /\ cb_pc[t] = "cr_state"
              /\ IF b.state = Open
                 THEN Goto(t, "cr_next") /\ UNCHANGED allowed
                 ELSE Goto(t, "idle") /\ allowed' = <<TRUE>>
           \/ /\ cb_pc[t] = "cr_next"
              /\ IF b.next_attempt # <<>> /\ clock >= b.next_attempt[1]
                 THEN Goto(t, "to_half_open") /\ UNCHANGED allowed
                 ELSE Goto(t, "idle") /\ allowed' = <<FALSE>>
    /\ UNCHANGED <<breaker, clock>>
    /\ UNCHANGED notSharedBreaker

\* CircuitBreaker::to_half_open and the `return true` of can_request
ToHalfOpen(t) ==
    /\ Blockers(t) = {}
    /\ LET b == breaker[1]
       IN  \/ /\ cb_pc[t] = "to_half_open"
              /\ IF b.state # HalfOpen
                 THEN /\ breaker' = <<[b EXCEPT !.state = HalfOpen]>>
                      /\ Goto(t, "half_store")
                      /\ UNCHANGED allowed
                 ELSE /\ UNCHANGED breaker
                      /\ Goto(t, "idle")
                      /\ allowed' = <<TRUE>>
           \/ /\ cb_pc[t] = "half_store"
              /\ breaker' = <<[b EXCEPT !.half_open_successes = 0]>>
              /\ Goto(t, "idle")
              /\ allowed' = <<TRUE>>
    /\ UNCHANGED clock
    /\ UNCHANGED notSharedBreaker

SharedBreakerNext ==
    \/ Wait
    \/ \E t \in Callers, op \in DOMAIN Entry : Call(t, op)
    \/ \E t \in Callers : Stats(t)
    \/ \E t \in Callers : RecordSuccessSteps(t)
    \/ \E t \in Callers : RecordFailureSteps(t)
    \/ \E t \in Callers : ToOpen(t)
    \/ \E t \in Callers : ToClosed(t)
    \/ \E t \in Callers : Reset(t)
    \/ \E t \in Callers : CanRequestSteps(t)
    \/ \E t \in Callers : ToHalfOpen(t)

SharedBreakerSpec == SharedBreakerInit /\ [][SharedBreakerNext]_vars

(***************************************************************************)
(* gust-core/src/middleware/circuit_breaker.rs: Bulkhead and BulkheadGuard *)
(* shared by several threads; one step is one atomic access.               *)
(***************************************************************************)
\* the threads that use the bulkhead, and the largest max_concurrent
MaxThreads == 3
MaxConcurrent == 2

Threads == 1..MaxThreads

\* Bulkhead::new(BulkheadConfig::new(max_concurrent).max_queue(max_queue))
NewBulkhead(max_concurrent, max_queue) ==
    [max_concurrent |-> max_concurrent, max_queue |-> max_queue,
     running |-> 0, queued |-> 0]

\* a variant of the exchange that adds one without comparing
compare_exchange_Blind(value, current, new) ==
    [ok |-> TRUE, value |-> value + 1]

\* AtomicU32::compare_exchange(current, new): whether it took place, and the
\* value afterwards
compare_exchange(value, current, new) ==
    IF value = current THEN [ok |-> TRUE, value |-> new]
    ELSE [ok |-> FALSE, value |-> value]

\* the error try_acquire ends with when it got no slot
Rejection(b) ==
    IF b.queued >= b.max_queue THEN "Queue full" ELSE "At capacity"

BulkheadInit ==
    /\ bulkhead \in {<<NewBulkhead(mc, mq)>> : mc \in 0..MaxConcurrent, mq \in {0, 1}}
    /\ bh_pc = [t \in Threads |-> "idle"]
    /\ bh_current = [t \in Threads |-> 0]
    /\ bh_result = [t \in Threads |-> "none"]
    /\ LimiterIdle
    /\ ThreadsIdle
    /\ BreakerIdle
    /\ ChainIdle
    /\ ServerIdle
    /\ ParserIdle
    /\ RouterIdle

\* try_acquire: `let current = self.running.load(..)`; at capacity the call
\* ends with an error
Load(t) ==
    /\ bh_pc[t] = "idle"
    /\ bh_current' = [bh_current EXCEPT ![t] = bulkhead[1].running]
    /\ IF bulkhead[1].running < bulkhead[1].max_concurrent
       THEN /\ bh_pc' = [bh_pc EXCEPT ![t] = "exchange"]
            /\ UNCHANGED bh_result
       ELSE /\ bh_result' = [bh_result EXCEPT ![t] = Rejection(bulkhead[1])]
            /\ UNCHANGED bh_pc
    /\ UNCHANGED bulkhead
    /\ UNCHANGED notBulkhead

\* try_acquire: `self.running.compare_exchange(current, current + 1, ..)`;
\* a guard when it took place, an error when it did not
Exchange(t) ==
    /\ bh_pc[t] = "exchange"
    /\ LET x == compare_exchange(bulkhead[1].running, bh_current[t], bh_current[t] + 1)
       IN  /\ bulkhead' = <<[bulkhead[1] EXCEPT !.running = x.value]>>
           /\ bh_pc' = [bh_pc EXCEPT ![t] = IF x.ok THEN "guard" ELSE "idle"]
           /\ bh_result' = [bh_result EXCEPT ![t] =
                                IF x.ok THEN "Ok" ELSE Rejection(bulkhead[1])]
    /\ UNCHANGED bh_current
    /\ UNCHANGED notBulkhead

\* BulkheadGuard::drop: `self.bulkhead.running.fetch_sub(1, ..)`
DropGuard(t) ==
    /\ bh_pc[t] = "guard"
    /\ bulkhead' = <<[bulkhead[1] EXCEPT !.running = @ - 1]>>
    /\ bh_pc' = [bh_pc EXCEPT ![t] = "idle"]
    /\ UNCHANGED <<bh_current, bh_result>>
    /\ UNCHANGED notBulkhead

BulkheadNext ==
    \E t \in Threads :
        \/ Load(t)
        \/ Exchange(t)
        \/ DropGuard(t)

BulkheadSpec == BulkheadInit /\ [][BulkheadNext]_vars

(***************************************************************************)
(* gust-core/src/middleware/rate_limit.rs: MemoryStore and RateLimit,      *)
(* requests handled one at a time.  A Duration is a number of ticks.       *)
(***************************************************************************)
\* the largest max_requests, the last tick of the clock, and the most
\* requests handled by one limiter
MaxRequests == 3
MaxNow == 3
MaxHandled == 5

\* what key_extractor makes of the requests
Keys == {"a", "b"}

\* RateLimitConfig::new(max_requests, window)
RateLimitConfigs == [max_requests : 1..MaxRequests, window : {1, MaxNow}]

\* u32::saturating_sub
saturating_sub(a, b) == IF a >= b THEN a - b ELSE 0

NoEntryResult(config) ==
    [allowed |-> TRUE, limit |-> config.max_requests,
     remaining |-> config.max_requests - 1, reset |-> config.window]

\* a variant of the check that still allows a request at the limit
check_AllowAtLimit(entries, key, config, now) ==
    IF key \in DOMAIN entries
    THEN LET entry == entries[key]
             elapsed == now - entry.window_start
         IN  IF elapsed >= config.window THEN NoEntryResult(config)
             ELSE [allowed |-> entry.count <= config.max_requests,
                   limit |-> config.max_requests,
                   remaining |-> saturating_sub(config.max_requests, entry.count),
                   reset |-> config.window - elapsed]
    ELSE NoEntryResult(config)

\* MemoryStore::check: the RateLimitResult
check(entries, key, config, now) ==
    IF key \in DOMAIN entries
    THEN LET entry == entries[key]
             elapsed == now - entry.window_start
         IN  IF elapsed >= config.window THEN NoEntryResult(config)
             ELSE [allowed |-> entry.count < config.max_requests,
                   limit |-> config.max_requests,
                   remaining |-> saturating_sub(config.max_requests, entry.count),
                   reset |-> config.window - elapsed]
    ELSE NoEntryResult(config)

\* MemoryStore::increment: the entries afterwards
increment(entries, key, config, now) ==
    LET entry == IF key \in DOMAIN entries THEN entries[key]
                 ELSE [count |-> 0, window_start |-> now]
        elapsed == now - entry.window_start
    IN  MapPut(entries, key,
               IF elapsed >= config.window
               THEN [count |-> 1, window_start |-> now]
               ELSE [entry EXCEPT !.count = @ + 1])

\* RateLimit::new(config)
NewRateLimit(config) == [config |-> config, entries |-> <<>>]

\* what the store told `before` about a request, and when it was settled
RlVerdict(key, res, now) ==
    [key |-> key, allowed |-> res.allowed, remaining |-> res.remaining,
     at |-> now]

LimiterInit ==
    /\ limiter \in {<<NewRateLimit(config)>> : config \in RateLimitConfigs}
    /\ rl_now = 0
    /\ rl_req = <<>>
    /\ rl_log = <<>>
    /\ ThreadsIdle
    /\ BulkheadIdle
    /\ BreakerIdle
    /\ ChainIdle
    /\ ServerIdle
    /\ ParserIdle
    /\ RouterIdle

\* time passes
RlTick ==
    /\ rl_now < MaxNow
    /\ rl_now' = rl_now + 1
    /\ UNCHANGED <<limiter, rl_req, rl_log>>
    /\ UNCHANGED notLimiter

\* RateLimit::before up to its return of 429, or up to the increment
BeforeCheck(key) ==
    /\ rl_req = <<>>
    /\ Len(rl_log) < MaxHandled
    /\ LET res == check(limiter[1].entries, key, limiter[1].config, rl_now)
       IN  IF res.allowed
           THEN /\ rl_req' = <<[key |-> key, result |-> res]>>
                /\ UNCHANGED rl_log
           ELSE /\ rl_log' = Append(rl_log, RlVerdict(key, res, rl_now))
                /\ UNCHANGED rl_req
    /\ UNCHANGED <<limiter, rl_now>>
    /\ UNCHANGED notLimiter

\* RateLimit::before from `self.store.increment(&key, &self.config)` on
BeforeIncrement ==
    /\ rl_req # <<>>
    /\ limiter' = <<[limiter[1] EXCEPT !.entries =
                         increment(@, rl_req[1].key, limiter[1].config, rl_now)]>>
    /\ rl_log' = Append(rl_log, RlVerdict(rl_req[1].key, rl_req[1].result, rl_now))
    /\ rl_req' = <<>>
    /\ UNCHANGED rl_now
    /\ UNCHANGED notLimiter

LimiterNext ==
    \/ RlTick
    \/ \E key \in Keys : BeforeCheck(key)
    \/ BeforeIncrement

LimiterSpec == LimiterInit /\ [][LimiterNext]_vars

(***************************************************************************)
(* gust-core/src/middleware/rate_limit.rs: one RateLimit shared by several *)
(* threads.  check and increment each run under their own guard of         *)
(* `entries`, so each is one step; nothing is held between the two.        *)
(***************************************************************************)
SharedLimiterInit ==
    /\ limiter \in {<<NewRateLimit(config)>> : config \in RateLimitConfigs}
    /\ rl_now = 0
    /\ rl_req = <<>>
    /\ rl_log = <<>>
    /\ rl_calls = [t \in Callers |-> <<>>]
    /\ cb_pc = <<>>
    /\ BulkheadIdle
    /\ BreakerIdle
    /\ ChainIdle
    /\ ServerIdle
    /\ ParserIdle
    /\ RouterIdle

\* time passes between two steps
SharedTick ==
    /\ rl_now < MaxNow
    /\ rl_now' = rl_now + 1
    /\ UNCHANGED <<limiter, rl_log, rl_calls>>
    /\ UNCHANGED notSharedLimiter

\* thread t runs RateLimit::before up to its return of 429, or up to the
\* increment
SharedCheck(t, key) ==
    /\ rl_calls[t] = <<>>
    /\ Len(rl_log) + Cardinality({u \in Callers : rl_calls[u] # <<>>}) < MaxHandled
    /\ LET res == check(limiter[1].entries, key, limiter[1].config, rl_now)
       IN  IF res.allowed
           THEN /\ rl_calls' = [rl_calls EXCEPT ![t] = <<[key |-> key, result |-> res]>>]
                /\ UNCHANGED rl_log
           ELSE /\ rl_log' = Append(rl_log, RlVerdict(key, res, rl_now))
                /\ UNCHANGED rl_calls
    /\ UNCHANGED <<limiter, rl_now>>
    /\ UNCHANGED notSharedLimiter

\* thread t runs RateLimit::before from the increment on and returns None
SharedIncrement(t) ==
    /\ rl_calls[t] # <<>>
    /\ LET call == rl_calls[t][1]
       IN  /\ limiter' = <<[limiter[1] EXCEPT !.entries =
                                increment(@, call.key, limiter[1].config, rl_now)]>>
           /\ rl_log' = Append(rl_log, RlVerdict(call.key, call.result, rl_now))
    /\ rl_calls' = [rl_calls EXCEPT ![t] = <<>>]
    /\ UNCHANGED rl_now
    /\ UNCHANGED notSharedLimiter

SharedLimiterNext ==
    \/ SharedTick
    \/ \E t \in Callers, key \in Keys : SharedCheck(t, key)
    \/ \E t \in Callers : SharedIncrement(t)

SharedLimiterSpec == SharedLimiterInit /\ [][SharedLimiterNext]_vars

(***************************************************************************)
(* Parser claims                                                           *)
(***************************************************************************)
IsPrefix(p, s) == Len(p) <= Len(s) /\ SubSeq(s, 1, Len(p)) = p

\* the least offset >= from whose byte is in S, or Len(s) when there is none
FirstIn(S, s, from) ==
    LET hits == {i \in from..(Len(s) - 1) : At(s, i) \in S}
    IN  IF hits = {} THEN Len(s)
        ELSE CHOOSE i \in hits : \A j \in hits : i <= j

\* the k-th (0-based) quadruple of header_offsets
Quad(r, k) == SubSeq(r.header_offsets, 4 * k + 1, 4 * k + 4)

\* C1: when parse_request returns Complete for a buffer of length L, every
\* reported offset pair is a valid range of the buffer: path_start <= path_end
\* <= L, query_start <= query_end <= L when a query is present, name_start <=
\* name_end <= value_start <= value_end <= L for each of the first
\* headers_count quadruples, body_start <= L; and [path_start, path_end) is
\* exactly the part of the request-target before its first '?' or space.
C1_OffsetsValid ==
    result.state = 1 =>
        LET L == Len(buf)
            target == FirstIn({SP}, buf, 0) + 1
        IN  /\ result.path_start <= result.path_end
            /\ result.path_end <= L
            /\ result.query_start # 0 =>
                   /\ result.query_start <= result.query_end
                   /\ result.query_end <= L
            /\ Len(result.header_offsets) >= 4 * result.headers_count
            /\ \A k \in 0..(result.headers_count - 1) :
                   LET q == Quad(result, k)
                   IN  /\ 0 <= q[1] /\ q[1] <= q[2]
                       /\ q[2] <= q[3] /\ q[3] <= q[4]
                       /\ q[4] <= L
            /\ result.body_start <= L
            /\ result.path_start = target
            /\ result.path_end = FirstIn({"?", SP}, buf, target)

\* a Complete parse of a request with a query and at least one header
C1_Witness ==
    /\ result.state = 1
    /\ result.query_start # 0
    /\ result.headers_count >= 1
    /\ result.path_end > result.path_start

\* C2: every buffer shorter than 18 bytes parses as Incomplete (state 0),
\* whatever its content.
C2_ShortIsIncomplete ==
    Len(buf) < 18 => result.state = 0

\* a syntactically complete 16-byte request (bare-LF line ends) was parsed
C2_Witness ==
    /\ buf = GET \o <<SP, "/", SP>> \o HTTPVER \o <<LF, LF>>
    /\ result.state = 0

\* the Method value the specification pairs with each method literal
MethodValue(lit) ==
    CASE lit = GET -> "Get"
      [] lit = POST -> "Post"
      [] lit = PUT -> "Put"
      [] lit = DELETE -> "Delete"
      [] lit = PATCH -> "Patch"
      [] lit = HEAD -> "Head"
      [] lit = OPTIONS -> "Options"
      [] lit = CONNECT -> "Connect"
      [] lit = TRACE -> "Trace"

\* C3: for each of the 9 method literals, a buffer that starts with
\* "<METHOD> / HTTP/1.1\r\n\r\n" parses as Complete with the matching Method.
C3_MethodsComplete ==
    \A lit \in Methods :
        IsPrefix(MinimalRequest(lit, <<>>), buf) =>
            /\ result.state = 1
            /\ result.method = MethodValue(lit)

\* a PUT request followed by further bytes was parsed
C3_Witness ==
    /\ IsPrefix(MinimalRequest(PUT, <<>>), buf)
    /\ Len(buf) > Len(MinimalRequest(PUT, <<>>))
    /\ result.method = "Put"

\* the bytes before the first space
LeadingToken(s) == Slice(s, 0, FirstIn({SP}, s, 0))

\* C4: for every buffer of at least 18 bytes that contains a space, if the
\* leading token is not one of the 9 uppercase method literals, whatever its
\* length, parse_request returns Error (state 2).
C4_BadTokenIsError ==
    (/\ Len(buf) >= 18
     /\ \E i \in 1..Len(buf) : buf[i] = SP
     /\ LeadingToken(buf) \notin Methods)
        => result.state = 2

\* where the k-th header of ManyHeadersRequest(n, sep, eol) lies
ExpectedQuad(k, sep, eol) ==
    LET start == Len(ManyHeadersLine(eol)) + k * Len(HeaderLine(0, sep, eol))
    IN  <<start, start + 1, start + 1 + Len(sep), start + 2 + Len(sep)>>

\* the request up to and including the blank line
ManyHeadersHead(n, sep, eol) ==
    LET req == ManyHeadersRequest(n, sep, eol)
    IN  SubSeq(req, 1, Len(req) - 1)

\* C5: a request with N > MAX_HEADERS well-formed header lines and a blank
\* line parses as Complete with headers_count = MAX_HEADERS, the recorded
\* quadruples are those of the first MAX_HEADERS headers in order, and
\* body_start is the offset just past the blank line after the N-th header.
C5_HeaderCap ==
    Len(buf) > 4 * MAX_HEADERS =>
        \A n \in (MAX_HEADERS + 1)..(MAX_HEADERS + MaxExtraHeaders),
           sep \in Separators, eol \in {CRLF, <<LF>>} :
            LET head == ManyHeadersHead(n, sep, eol)
            IN  IsPrefix(head, buf) =>
                    /\ result.state = 1
                    /\ result.headers_count = MAX_HEADERS
                    /\ result.body_start = Len(head)
                    /\ \A k \in 0..(MAX_HEADERS - 1) :
                           Quad(result, k) = ExpectedQuad(k, sep, eol)

\* a request with MAX_HEADERS + 1 header lines was received whole and parsed
C5_Witness ==
    /\ Len(buf) > 4 * MAX_HEADERS
    /\ wire = <<>>
    /\ \E sep \in Separators, eol \in {CRLF, <<LF>>} :
           IsPrefix(ManyHeadersRequest(MAX_HEADERS + 1, sep, eol), buf)
    /\ result.state = 1
    /\ result.headers_count = MAX_HEADERS

\* the fields of a Complete result that a caller reads
Verdict(r) ==
    [state |-> r.state, method |-> r.method,
     path_start |-> r.path_start, path_end |-> r.path_end,
     query_start |-> r.query_start, query_end |-> r.query_end,
     headers_count |-> r.headers_count, body_start |-> r.body_start,
     quads |-> SubSeq(r.header_offsets, 1, 4 * r.headers_count)]

\* C17: re-parsing a growing buffer gives Incomplete any number of times and
\* then one fixed terminal verdict: once parse_request is Complete, every
\* longer buffer parses as Complete with the same method, path and query
\* offsets, headers_count, body_start and first headers_count quadruples;
\* once it is Error, every longer buffer parses as Error.
C17_VerdictStable ==
    [][/\ result.state = 1 => Verdict(result') = Verdict(result)
       /\ result.state = 2 => result'.state = 2]_vars

\* a Complete parse with a header was repeated after more bytes had arrived
C17_Witness ==
    /\ result.state = 1
    /\ result.headers_count >= 1
    /\ Len(buf) > result.body_start

\* the offset just past the terminator of the request line
RequestLineEnd(s) ==
    LET e == FirstIn({CR, LF}, s, 0)
    IN  IF e + 1 < Len(s) /\ At(s, e) = CR /\ At(s, e + 1) = LF THEN e + 2
        ELSE e + 1

\* C18: on every buffer that parses as Complete, the first headers_count
\* quadruples appear in increasing offset order without overlapping (each
\* one starts after the value of the one before has ended), and each lies
\* in the header block: name_start is at or after the end of the request
\* line and value_end is strictly before body_start.
C18_QuadsInHeaderBlock ==
    result.state = 1 =>
        /\ \A k \in 0..(result.headers_count - 1) :
               /\ RequestLineEnd(buf) <= Quad(result, k)[1]
               /\ Quad(result, k)[4] < result.body_start
        /\ \A k \in 1..(result.headers_count - 1) :
               /\ Quad(result, k - 1)[1] < Quad(result, k)[1]
               /\ Quad(result, k - 1)[4] <= Quad(result, k)[1]

\* a Complete parse of exactly two header lines, the second with a value
C18_Witness ==
    /\ result.state = 1
    /\ result.headers_count = 2
    /\ Quad(result, 1)[3] < Quad(result, 1)[4]

\* the buffer holds a method literal, a space, and the end of the request
\* line with no space between the start of the request-target and that end
NoVersionToken(s) ==
    LET target == FirstIn({SP}, s, 0) + 1
        line_end == FirstIn({CR, LF}, s, target)
    IN  /\ LeadingToken(s) \in Methods
        /\ target <= Len(s)
        /\ line_end < Len(s)
        /\ \A i \in target..(line_end - 1) : At(s, i) # SP

\* C24: when parse_request finds the end of the request line and no space
\* between the start of the request-target and that end (the HTTP-version
\* token is missing), it returns Incomplete, not Error, and it still returns
\* Incomplete for every longer buffer that begins with those bytes.
C24_MissingVersionIsIncomplete ==
    /\ [](NoVersionToken(buf) => result.state = 0)
    /\ [][NoVersionToken(buf) =>
              (NoVersionToken(buf') /\ result'.state = 0)]_vars

\* "GET /a" ended its line without a version; the Host header and the blank
\* line have arrived since, 18 bytes or more in all, and the parse is
\* Incomplete
C24_Witness ==
    /\ NoVersionToken(buf)
    /\ Len(buf) >= 18
    /\ Len(buf) > FirstIn({CR, LF}, buf, 0) + 4
    /\ wire = <<>>
    /\ result.state = 0

\* C25: for every buffer on which parse_request returns Complete with
\* body_start = B, every proper prefix of the buffer shorter than B parses as
\* Incomplete, neither Complete nor Error.
C25_PrefixesIncomplete ==
    result.state = 1 =>
        \A n \in 0..(result.body_start - 1) :
            parse_request(SubSeq(buf, 1, n)).state = 0

\* a Complete parse of a request with two header lines whose head is longer
\* than the shortest request
C25_Witness ==
    /\ result.state = 1
    /\ result.headers_count = 2
    /\ result.body_start > 18
    /\ Len(buf) = result.body_start

\* C26: for every buffer on which parse_request returns Complete, each
\* recorded header lies on a single line: the name range holds no CR, LF or
\* ':', the byte at name_end is ':', and the value range holds no CR or LF
\* and does not begin with a space or tab.
C26_HeaderOnOneLine ==
    result.state = 1 =>
        \A k \in 0..(result.headers_count - 1) :
            LET q == Quad(result, k)
            IN  /\ \A i \in q[1]..(q[2] - 1) : At(buf, i) \notin {CR, LF, ":"}
                /\ At(buf, q[2]) = ":"
                /\ \A i \in q[3]..(q[4] - 1) : At(buf, i) \notin {CR, LF}
                /\ q[3] < q[4] => At(buf, q[3]) \notin {SP, HT}

(***************************************************************************)
(* Router claims                                                           *)
(***************************************************************************)
\* the method key and the segments of the k-th insert call
RouteMethod(k) == to_uppercase(inserted[k].method)
RouteSegments(k) == path_segments(inserted[k].path)

IsStatic(segment) == ~StartsWith(segment, ":") /\ ~StartsWith(segment, "*")

\* the patterns registered under method key m that go below the position `prefix`
Below(m, prefix) ==
    {RouteSegments(k) : k \in {j \in 1..Len(inserted) :
        /\ RouteMethod(j) = m
        /\ Len(RouteSegments(j)) > Len(prefix)
        /\ IsPrefix(prefix, RouteSegments(j))}}

\* the handler of the latest registration of the pattern `segments` under m
LatestHandler(m, segments) ==
    LET ks == {k \in 1..Len(inserted) :
                  RouteMethod(k) = m /\ RouteSegments(k) = segments}
        last == CHOOSE k \in ks : \A j \in ks : j <= k
    IN  inserted[last].handler_id

Some(x) == <<x>>

\* C6: when a static route and a parameter route are registered at the same
\* trie position under one method, in either order, find on the path whose
\* segment equals the literal returns the static route's handler, and find on
\* any other single segment returns the parameter route's handler with that
\* segment bound to the parameter name.
C6_StaticBeforeParam ==
    found # <<>> =>
        LET f == found[1]
            m == to_uppercase(f.method)
            ps == path_segments(f.path)
        IN  \A i, j \in 1..Len(inserted) :
                LET s == RouteSegments(i)
                    q == RouteSegments(j)
                    prefix == SubSeq(ps, 1, Len(ps) - 1)
                IN  (/\ ps # <<>>
                     /\ RouteMethod(i) = m /\ RouteMethod(j) = m
                     /\ Len(s) = Len(ps) /\ Len(q) = Len(ps)
                     /\ IsPrefix(prefix, s) /\ IsPrefix(prefix, q)
                     /\ \A n \in 1..Len(prefix) : IsStatic(prefix[n])
                     /\ IsStatic(s[Len(s)])
                     /\ StartsWith(q[Len(q)], ":")
                     /\ Below(m, prefix) = {s, q})
                    => IF ps[Len(ps)] = s[Len(s)]
                       THEN f.result = Some([handler_id |-> LatestHandler(m, s),
                                             params |-> <<>>])
                       ELSE f.result =
                                Some([handler_id |-> LatestHandler(m, q),
                                      params |-> << <<Tail(q[Len(q)]), ps[Len(ps)]>> >>])

\* /u/:i was registered, then /u/m, and /u/m was looked up
C6_Witness ==
    /\ Len(inserted) = 2
    /\ inserted[1].path = <<"/", "u", "/", ":", "i">>
    /\ inserted[2].path = <<"/", "u", "/", "m">>
    /\ to_uppercase(inserted[1].method) = to_uppercase(inserted[2].method)
    /\ found # <<>>
    /\ found[1].path = <<"/", "u", "/", "m">>
    /\ found[1].result = Some([handler_id |-> 1, params |-> <<>>])

\* the position of the first wildcard segment of a pattern, 0 when it has none
FirstWildcard(segments) ==
    LET ws == {n \in 1..Len(segments) : StartsWith(segments[n], "*")}
    IN  IF ws = {} THEN 0 ELSE CHOOSE n \in ws : \A k \in ws : n <= k

\* C7: when find matches through a wildcard segment, the match carries one
\* pair for the wildcard, whose value is all not-yet-consumed non-empty path
\* segments rejoined with '/', bound under the wildcard's name, or under "*"
\* when the pattern segment was a bare '*'.
C7_WildcardCapture ==
    (found # <<>> /\ found[1].result # <<>>) =>
        LET match == found[1].result[1]
            route == RouteSegments(match.handler_id + 1)
            w == FirstWildcard(route)
            ps == path_segments(found[1].path)
            named == {n \in 1..(w - 1) : StartsWith(route[n], ":")}
        IN  w # 0 =>
                /\ Len(ps) >= w
                /\ Len(match.params) = Cardinality(named) + 1
                /\ match.params[Len(match.params)] =
                       << IF Len(route[w]) = 1 THEN <<"*">> ELSE Tail(route[w]),
                          join(SubSeq(ps, w, Len(ps))) >>

\* /u/* caught /u//x/y/ and bound "x/y" under "*"
C7_Witness ==
    /\ found # <<>>
    /\ found[1].path = <<"/", "u", "/", "/", "x", "/", "y", "/">>
    /\ found[1].result # <<>>
    /\ found[1].result[1].params = << << <<"*">>, <<"x", "/", "y">> >> >>

\* the router built by the insert calls of `calls` whose index is in `keep`
RECURSIVE Replay(_, _, _)
Replay(calls, keep, n) ==
    IF n = 0 THEN <<>>
    ELSE LET before == Replay(calls, keep, n - 1)
         IN  IF n \in keep
             THEN insert(before, calls[n].method, calls[n].path, calls[n].handler_id)
             ELSE before

\* C8: find(m, p) depends only on the routes inserted under method m (compared
\* case-insensitively): a route registered under one method is never returned
\* for another method, with no HEAD-to-GET or other fallback.
C8_MethodIsolation ==
    found # <<>> =>
        LET f == found[1]
            same == {k \in 1..Len(inserted) : RouteMethod(k) = to_uppercase(f.method)}
        IN  /\ f.result = find(Replay(inserted, same, Len(inserted)), f.method, f.path)
            /\ f.result # <<>> => (f.result[1].handler_id + 1) \in same

\* /u is registered under GET only and was looked up under HEAD
C8_Witness ==
    /\ inserted # <<>>
    /\ \A k \in 1..Len(inserted) :
           /\ inserted[k].method = <<"G", "E", "T">>
           /\ inserted[k].path = <<"/", "u">>
    /\ found # <<>>
    /\ found[1].method = <<"H", "E", "A", "D">>
    /\ found[1].path = <<"/", "u">>
    /\ found[1].result = <<>>

\* a path with every leading, trailing and repeated '/' removed
RECURSIVE Squeeze(_)
Squeeze(s) ==
    IF s = <<>> THEN <<>>
    ELSE IF Head(s) = "/"
         THEN LET r == Squeeze(Tail(s))
              IN  IF r = <<>> \/ Head(r) = "/" THEN r ELSE <<"/">> \o r
    ELSE <<Head(s)>> \o Squeeze(Tail(s))

SlashCanon(s) ==
    LET c == Squeeze(s)
    IN  IF c # <<>> /\ Head(c) = "/" THEN Tail(c) ELSE c

\* the insert calls made, each with its pattern stripped of extra slashes
CanonInserted ==
    [k \in 1..Len(inserted) |->
        [inserted[k] EXCEPT !.path = <<"/">> \o SlashCanon(inserted[k].path)]]

\* C9: empty path segments are insignificant on insert and on find: paths that
\* differ only by leading, trailing or repeated '/' give identical find
\* results, and a pattern inserted with extra slashes registers the same route
\* as the pattern without them.
C9_EmptySegmentsInsignificant ==
    /\ found = <<>> => trees = Replay(CanonInserted, 1..Len(inserted), Len(inserted))
    /\ found # <<>> =>
           \A p \in ProbePaths :
               SlashCanon(p) = SlashCanon(found[1].path) =>
                   find(trees, found[1].method, p) = found[1].result

\* //u//m/ was registered and /u/m was looked up and found
C9_Witness ==
    /\ Len(inserted) = 1
    /\ inserted[1].path = <<"/", "/", "u", "/", "/", "m", "/">>
    /\ found # <<>>
    /\ found[1].path = <<"/", "u", "/", "m">>
    /\ found[1].result # <<>>

\* the insert calls made, each with its method in upper case
UpperInserted ==
    [k \in 1..Len(inserted) |->
        [inserted[k] EXCEPT !.method = to_uppercase(inserted[k].method)]]

\* C10: method strings are compared case-insensitively on insert and on find:
\* for two method strings equal after uppercasing, inserting under one and
\* finding under the other gives the same result as using the same string.
C10_MethodCaseInsensitive ==
    /\ found = <<>> => trees = Replay(UpperInserted, 1..Len(inserted), Len(inserted))
    /\ found # <<>> =>
           \A m \in FindMethods \cup InsertMethods :
               to_uppercase(m) = to_uppercase(found[1].method) =>
                   find(trees, m, found[1].path) = found[1].result

\* /u was registered under "get" and found under "Get"
C10_Witness ==
    /\ Len(inserted) = 1
    /\ inserted[1].method = <<"g", "e", "t">>
    /\ inserted[1].path = <<"/", "u">>
    /\ found # <<>>
    /\ found[1].method = <<"G", "e", "t">>
    /\ found[1].result = Some([handler_id |-> 0, params |-> <<>>])

\* 0 for a literal pattern segment, 1 for a parameter, 2 for a wildcard
Kind(segment) ==
    IF StartsWith(segment, ":") THEN 1
    ELSE IF StartsWith(segment, "*") THEN 2
    ELSE 0

\* a pattern matches a path: literal = equal segment, :name = any one
\* segment, trailing wildcard = one or more segments
Matches(pattern, ps) ==
    /\ Len(pattern) <= Len(ps)
    /\ \A n \in 1..Len(pattern) :
           /\ Kind(pattern[n]) = 0 => pattern[n] = ps[n]
           /\ Kind(pattern[n]) = 2 => n = Len(pattern)
    /\ Len(pattern) < Len(ps) =>
           pattern # <<>> /\ Kind(pattern[Len(pattern)]) = 2

\* two patterns take the same way through the trie up to position n
SameWay(p, q, n) ==
    /\ n <= Len(p) /\ n <= Len(q)
    /\ \A k \in 1..n :
           /\ Kind(p[k]) = Kind(q[k])
           /\ Kind(p[k]) = 0 => p[k] = q[k]

\* pattern p comes before pattern q: at the first segment where their ways
\* part, p has the smaller kind (static < parameter < wildcard)
Before(p, q) ==
    \E n \in 1..Len(p) :
        /\ n <= Len(q)
        /\ SameWay(p, q, n - 1)
        /\ Kind(p[n]) < Kind(q[n])

\* the registrations under method key m whose pattern matches ps
Matching(m, ps) ==
    {k \in 1..Len(inserted) : RouteMethod(k) = m /\ Matches(RouteSegments(k), ps)}

\* C19: find returns None exactly when no registered pattern of the method
\* matches the path's non-empty segments; otherwise it returns the handler of
\* a matching pattern that no other matching pattern comes before when the
\* two are compared segment by segment with static < parameter < wildcard
\* (of several registrations of one such pattern, the latest).
C19_HighestPriorityMatch ==
    found # <<>> =>
        LET f == found[1]
            ps == path_segments(f.path)
            K == Matching(to_uppercase(f.method), ps)
        IN  IF K = {} THEN f.result = <<>>
            ELSE /\ f.result # <<>>
                 /\ LET k == f.result[1].handler_id + 1
                        p == RouteSegments(k)
                    IN  /\ k \in K
                        /\ \A j \in K :
                               /\ ~Before(RouteSegments(j), p)
                               /\ (SameWay(RouteSegments(j), p, Len(p))
                                      /\ Len(RouteSegments(j)) = Len(p)) => j <= k

\* three registered patterns match /a/b/d, and the lookup returned the
\* parameter route ahead of the two wildcard routes
C19_Witness ==
    /\ found # <<>>
    /\ found[1].path = <<"/", "a", "/", "b", "/", "d">>
    /\ Cardinality(Matching(GET, path_segments(found[1].path))) = 3
    /\ found[1].result # <<>>
    /\ RouteSegments(found[1].result[1].handler_id + 1) = <<<<"a">>, <<":", "x">>, <<"d">>>>

\* the registrations under m that follow the literal segments `prefix` and
\* then have a segment of kind `kind`
Branch(m, prefix, kind) ==
    {k \in 1..Len(inserted) :
        /\ RouteMethod(k) = m
        /\ Len(RouteSegments(k)) > Len(prefix)
        /\ IsPrefix(prefix, RouteSegments(k))
        /\ Kind(RouteSegments(k)[Len(prefix) + 1]) = kind}

\* C20: at the node reached through the literal segments ps[1..n-1], a
\* pattern that goes on longer than the path, or ends on a node without a
\* handler, is no match.  When no registered pattern through the static
\* child ps[n] matches, the lookup returns a matching pattern through the
\* parameter child with ps[n] bound to the parameter; when none of those
\* matches either, it returns the wildcard registered at that node with the
\* remaining segments bound to it.
C20_BacktrackOnFailedDescent ==
    found # <<>> =>
        LET f == found[1]
            m == to_uppercase(f.method)
            ps == path_segments(f.path)
            K == Matching(m, ps)
        IN  \A n \in 1..Len(ps) :
                LET prefix == SubSeq(ps, 1, n - 1)
                    static == Branch(m, prefix, 0) \cap K
                    param == Branch(m, prefix, 1)
                    wild == Branch(m, prefix, 2)
                    first == CHOOSE k \in param : \A j \in param : k <= j
                    last == CHOOSE k \in wild : \A j \in wild : j <= k
                IN  (static = {} /\ \A k \in 1..(n - 1) : Kind(ps[k]) = 0) =>
                        IF param \cap K # {}
                        THEN /\ f.result # <<>>
                             /\ f.result[1].handler_id + 1 \in param \cap K
                             /\ f.result[1].params[1] =
                                    <<Tail(RouteSegments(first)[n]), ps[n]>>
                        ELSE wild # {} =>
                                 f.result =
                                     Some([handler_id |-> inserted[last].handler_id,
                                           params |-> << <<WildcardName(Tail(RouteSegments(last)[n])),
                                                          join(SubSeq(ps, n, Len(ps)))>> >>])

\* /a/b/c and /a/:x/d are registered and /a/b/d was looked up: the static
\* child b leads to no match, the parameter child gives the second route
C20_Witness ==
    /\ Len(inserted) >= 2
    /\ inserted[1].path = <<"/", "a", "/", "b", "/", "c">>
    /\ inserted[2].path = <<"/", "a", "/", ":", "x", "/", "d">>
    /\ found # <<>>
    /\ found[1].path = <<"/", "a", "/", "b", "/", "d">>
    /\ found[1].result =
           Some([handler_id |-> 1, params |-> << <<<<"x">>, <<"b">>>> >>])

\* the registrations under m that go the way of pattern p through its n-th
\* segment
AlongWith(m, p, n) ==
    {k \in 1..Len(inserted) : RouteMethod(k) = m /\ SameWay(RouteSegments(k), p, n)}

\* the name held by the trie node that the n-th segment of pattern p made or
\* reused: a parameter child keeps the name of the registration that created
\* it, a wildcard child is replaced by every registration
NodeName(m, p, n) ==
    LET ks == AlongWith(m, p, n)
        first == CHOOSE k \in ks : \A j \in ks : k <= j
        last == CHOOSE k \in ks : \A j \in ks : j <= k
    IN  IF Kind(p[n]) = 1 THEN Tail(RouteSegments(first)[n])
        ELSE WildcardName(Tail(RouteSegments(last)[n]))

\* the pairs of the parameter and wildcard segments of pattern p from its
\* n-th segment on, left to right, for the path segments ps
RECURSIVE Pairs(_, _, _, _)
Pairs(m, p, ps, n) ==
    IF n > Len(p) THEN <<>>
    ELSE (CASE Kind(p[n]) = 0 -> <<>>
            [] Kind(p[n]) = 1 -> << <<NodeName(m, p, n), ps[n]>> >>
            [] OTHER -> << <<NodeName(m, p, n), join(SubSeq(ps, n, Len(ps)))>> >>)
         \o Pairs(m, p, ps, n + 1)

\* C21: a Match returned by find holds exactly one (name, value) pair for
\* each parameter or wildcard node on the trie path of the matched pattern,
\* in left-to-right order, and no pair of a parameter branch that was tried
\* and abandoned.
C21_ParamsFollowMatchedPath ==
    (found # <<>> /\ found[1].result # <<>>) =>
        LET f == found[1]
            match == f.result[1]
        IN  match.params =
                Pairs(to_uppercase(f.method), RouteSegments(match.handler_id + 1),
                      path_segments(f.path), 1)

\* /a/:x/d and /a/* are registered and /a/v/u was looked up: the parameter
\* child was tried with x = v, abandoned, and the wildcard match holds its
\* own pair only
C21_Witness ==
    /\ Len(inserted) >= 2
    /\ inserted[1].path = <<"/", "a", "/", ":", "x", "/", "d">>
    /\ inserted[2].path = <<"/", "a", "/", "*">>
    /\ found # <<>>
    /\ found[1].path = <<"/", "a", "/", "v", "/", "u">>
    /\ found[1].result =
           Some([handler_id |-> 1,
                 params |-> << <<<<"*">>, <<"v", "/", "u">>>> >>])

\* the registrations under m that end in a wildcard placed right after the
\* last segment of ps: they would match only with an empty capture
ZeroCapture(m, ps) ==
    {k \in 1..Len(inserted) :
        /\ RouteMethod(k) = m
        /\ Len(RouteSegments(k)) = Len(ps) + 1
        /\ Kind(RouteSegments(k)[Len(ps) + 1]) = 2
        /\ Matches(SubSeq(RouteSegments(k), 1, Len(ps)), ps)}

\* C22: a wildcard never matches zero segments.  When the path is used up
\* at a node, only a pattern that ends at that node gives a match there: a
\* wildcard registered below it does not, so a lookup that only such
\* wildcards could serve returns None, and the wildcard capture of every
\* returned Match is non-empty.
C22_WildcardNeedsSegment ==
    found # <<>> =>
        LET f == found[1]
            m == to_uppercase(f.method)
            ps == path_segments(f.path)
        IN  /\ (ZeroCapture(m, ps) # {} /\ Matching(m, ps) = {}) => f.result = <<>>
            /\ f.result # <<>> =>
                   LET match == f.result[1]
                       p == RouteSegments(match.handler_id + 1)
                   IN  /\ ZeroCapture(m, ps) # {} =>
                              match.handler_id + 1 \notin ZeroCapture(m, ps)
                       /\ (p # <<>> /\ Kind(p[Len(p)]) = 2) =>
                              /\ match.params # <<>>
                              /\ match.params[Len(match.params)][2] # <<>>

\* only /a/* is registered, and the lookup of /a returned None
C22_Witness ==
    /\ Len(inserted) = 1
    /\ inserted[1].path = <<"/", "a", "/", "*">>
    /\ found # <<>>
    /\ found[1].path = <<"/", "a">>
    /\ found[1].result = <<>>

\* the positions of the parameter and wildcard segments of a pattern
Captures(p) ==
    SelectSeq([n \in 1..Len(p) |-> n], LAMBDA n : Kind(p[n]) # 0)

\* the name the k-th registration gives to its n-th segment
NameOf(k, n) ==
    LET segment == RouteSegments(k)[n]
    IN  IF Kind(segment) = 1 THEN Tail(segment) ELSE WildcardName(Tail(segment))

Oldest(ks) == CHOOSE k \in ks : \A j \in ks : k <= j
Latest(ks) == CHOOSE k \in ks : \A j \in ks : j <= k

\* a node and all nodes below it hold at most one parameter child and at
\* most one wildcard child
RECURSIVE SingleChildren(_)
SingleChildren(node) ==
    /\ Len(node.param_child) <= 1
    /\ Len(node.wildcard_child) <= 1
    /\ \A s \in DOMAIN node.children : SingleChildren(node.children[s])
    /\ node.param_child # <<>> => SingleChildren(node.param_child[1].node)

\* C23 as stated: every captured value of a returned Match is bound under
\* the name given by the most recent insert through that trie position, for
\* parameter and wildcard segments alike.
C23_LastInsertionWins ==
    (found # <<>> /\ found[1].result # <<>>) =>
        LET match == found[1].result[1]
            m == to_uppercase(found[1].method)
            p == RouteSegments(match.handler_id + 1)
            at == Captures(p)
        IN  \A j \in 1..Len(at) :
                j <= Len(match.params) =>
                    match.params[j][1] = NameOf(Latest(AlongWith(m, p, at[j])), at[j])

\* C23 amended: each trie node holds at most one parameter child and at
\* most one wildcard child; a wildcard's value is bound under the name given
\* by the most recent insert through that position, a parameter's value
\* under the name given by the first insert through that position.
C23_FirstParamLastWildcard ==
    /\ \A m \in DOMAIN trees : SingleChildren(trees[m])
    /\ (found # <<>> /\ found[1].result # <<>>) =>
           LET match == found[1].result[1]
               m == to_uppercase(found[1].method)
               p == RouteSegments(match.handler_id + 1)
               at == Captures(p)
           IN  /\ Len(match.params) = Len(at)
               /\ \A j \in 1..Len(at) :
                      LET ks == AlongWith(m, p, at[j])
                      IN  match.params[j][1] =
                              IF Kind(p[at[j]]) = 1 THEN NameOf(Oldest(ks), at[j])
                              ELSE NameOf(Latest(ks), at[j])

\* /u/:i then /u/:j were registered: /u/x reaches the second handler with x
\* bound under the first name
C23_Witness ==
    /\ Len(inserted) = 2
    /\ inserted[1].path = <<"/", "u", "/", ":", "i">>
    /\ inserted[2].path = <<"/", "u", "/", ":", "j">>
    /\ RouteMethod(1) = RouteMethod(2)
    /\ found # <<>>
    /\ found[1].path = <<"/", "u", "/", "x">>
    /\ found[1].result =
           Some([handler_id |-> 1, params |-> << <<<<"i">>, <<"x">>>> >>])

\* C27: insert never removes a match: whatever the router holds and
\* whatever is inserted, every (method, path) for which find returned Some
\* before the insert still gets Some after it.
C27_InsertKeepsMatches ==
    [][\A method \in FindMethods, path \in NestedPaths \cup ProbePaths :
           find(trees, method, path) # <<>> => find(trees', method, path) # <<>>]_vars

\* /a/:x/d served /a/b/d; then /a/b/c put a static child b in front of the
\* parameter child, and /a/b/d is still served by the first route
C27_Witness ==
    /\ Len(inserted) = 2
    /\ inserted[1].path = <<"/", "a", "/", ":", "x", "/", "d">>
    /\ inserted[2].path = <<"/", "a", "/", "b", "/", "c">>
    /\ find(Replay(inserted, {1}, 1), GET, <<"/", "a", "/", "b", "/", "d">>) # <<>>
    /\ found # <<>>
    /\ found[1].path = <<"/", "a", "/", "b", "/", "d">>
    /\ found[1].result # <<>>
    /\ found[1].result[1].handler_id = 0

(***************************************************************************)
(* Middleware chain claims                                                 *)
(***************************************************************************)
IsBefore(e) == e.hook = "before"
IsAfter(e) == e.hook = "after"

\* the hook calls a chain of middlewares expects, front to back
InOrder(h, ms) == [j \in 1..Len(ms) |-> Hook(h, ms[j], j)]

Reverse(s) == [j \in 1..Len(s) |-> s[Len(s) + 1 - j]]

\* C11: run_before invokes the before hooks of the chain m1..mn in
\* registration order, without leaving one out (all n of them when none
\* answers early), and run_after invokes the after hook of every middleware
\* exactly once, in the reverse order mn, ..., m1.
C11_OnionOrder ==
    [][/\ (pc = "checked" /\ has_middleware) =>
              /\ IsPrefix(SelectSeq(invoked', IsBefore), InOrder("before", middlewares))
              /\ pc' = "handler" =>
                     SelectSeq(invoked', IsBefore) = InOrder("before", middlewares)
       /\ (pc = "after" /\ pc' = "done") =>
              SelectSeq(invoked', IsAfter) = Reverse(InOrder("after", middlewares))]_vars

\* a request went through the before hooks, the handler and the after hooks
\* of a chain of three different middlewares
C11_Witness ==
    /\ pc = "done"
    /\ Len(middlewares) = MaxMiddlewares
    /\ Cardinality({middlewares[j] : j \in 1..Len(middlewares)}) = MaxMiddlewares
    /\ Len(SelectSeq(invoked, IsBefore)) = MaxMiddlewares
    /\ Len(SelectSeq(invoked, IsAfter)) = MaxMiddlewares

\* C12: when the before hook of middleware mk answers with an early
\* response, that hook is the last thing invoked for the request: the
\* response of the request is mk's, no before hook of a later middleware
\* and no request handler has been invoked, and handle_request is done.
C12_EarlyResponseShortCircuits ==
    \A k \in 1..Len(invoked) :
        (IsBefore(invoked[k]) /\ invoked[k].m \in request[1].early) =>
            /\ k = Len(invoked)
            /\ \A j \in 1..k : IsBefore(invoked[j])
            /\ response = <<[from |-> invoked[k].m, at |-> invoked[k].at]>>
            /\ pc \in {"done", "idle"}

\* the second of three middlewares answered early, and the third would
\* have answered early too
C12_Witness ==
    /\ Len(middlewares) = MaxMiddlewares
    /\ Len(invoked) = 2
    /\ IsBefore(invoked[2])
    /\ response = <<[from |-> middlewares[2], at |-> 2]>>
    /\ middlewares[3] \in request[1].early
    /\ middlewares[3] # middlewares[2]

(***************************************************************************)
(* Shutdown claims                                                         *)
(***************************************************************************)
\* C13: graceful_shutdown returns true only when all connections have
\* drained, and no connection is admitted once shutdown has been signalled:
\* under every interleaving of the accept loop, connection completion and
\* graceful_shutdown, the active connection count is 0 when
\* graceful_shutdown returns true and stays 0 afterwards.
C13_DrainedStaysDrained ==
    drained = <<TRUE>> => active = 0

(***************************************************************************)
(* Circuit breaker claims                                                  *)
(***************************************************************************)
\* how many of the record_failure calls logged in `log` lie inside the
\* failure window that ends at `now`
InWindow(log, now, window) ==
    Cardinality({j \in 1..Len(log) : log[j] > now - window})

\* C14: on a new CircuitBreaker with failure_threshold N, used one call at a
\* time, the state stays Closed after a record_failure call as long as fewer
\* than N such calls lie inside the failure window, and can_request then
\* returns true; the state becomes Open at the call that makes them N; and
\* while the state is Open, can_request returns false as long as
\* reset_timeout has not elapsed since the breaker opened.
C14_OpensAtThreshold ==
    [][LET b == breaker[1]
           n == InWindow(failure_log', clock, b.config.failure_window)
       IN  /\ (RecordFailure /\ opened_at = <<>>) =>
                  /\ n < b.config.failure_threshold => breaker'[1].state = Closed
                  /\ n >= b.config.failure_threshold => breaker'[1].state = Open
           /\ (CanRequest /\ b.state = Closed) => allowed' = <<TRUE>>
           /\ (CanRequest /\ b.state = Open
                  /\ clock < opened_at[1] + b.config.reset_timeout) =>
                  /\ allowed' = <<FALSE>>
                  /\ breaker'[1].state = Open]_vars

\* a breaker with threshold 3 saw an old failure go out of the window, was
\* opened by the third failure inside it, and then refused a request
C14_Witness ==
    /\ breaker # <<>>
    /\ breaker[1].config.failure_threshold = MaxThreshold
    /\ breaker[1].state = Open
    /\ Len(failure_log) = MaxFailures
    /\ opened_at = <<failure_log[MaxFailures]>>
    /\ allowed = <<FALSE>>

(***************************************************************************)
(* Bulkhead claims                                                         *)
(***************************************************************************)
\* the threads that hold a guard
Guards(pcs) == {t \in Threads : pcs[t] = "guard"}

\* C15: under every interleaving of try_acquire calls and guard drops, the
\* running count is the number of live guards and never exceeds
\* max_concurrent; a try_acquire that comes to its end while max_concurrent
\* guards are alive returns an error; and the drop of a guard lowers the
\* running count by one, to a value below max_concurrent, with which a
\* try_acquire that is not interfered with gets a guard.
C15_BulkheadCapacity ==
    [][LET b == bulkhead[1]
       IN  /\ b.running = Cardinality(Guards(bh_pc))
           /\ b.running <= b.max_concurrent
           /\ bulkhead'[1].running <= b.max_concurrent
           /\ \A t \in Threads :
                  /\ (Cardinality(Guards(bh_pc)) = b.max_concurrent
                         /\ (Load(t) \/ Exchange(t)) /\ bh_pc'[t] # "exchange") =>
                         /\ bh_pc'[t] = "idle"
                         /\ bh_result'[t] \in {"At capacity", "Queue full"}
                  /\ DropGuard(t) =>
                         /\ bulkhead'[1].running = b.running - 1
                         /\ bulkhead'[1].running < b.max_concurrent
                         /\ compare_exchange(bulkhead'[1].running,
                                bulkhead'[1].running, bulkhead'[1].running + 1).ok]_vars

\* two guards of a bulkhead of two are alive and the third thread was
\* turned away
C15_Witness ==
    /\ bulkhead # <<>>
    /\ bulkhead[1].max_concurrent = MaxConcurrent
    /\ Cardinality(Guards(bh_pc)) = MaxConcurrent
    /\ \E t \in Threads : bh_pc[t] = "idle" /\ bh_result[t] = "At capacity"

(***************************************************************************)
(* Rate limit claims                                                       *)
(***************************************************************************)
\* the verdicts of the requests of one key, in the order they were handled
VerdictsOf(key) ==
    LET ForKey(v) == v.key = key
    IN  SelectSeq(rl_log, ForKey)

\* C16: of the requests of one key that are handled one at a time inside a
\* single window (the window that the first of them starts), exactly the
\* first max_requests are allowed, and every further one is denied with
\* remaining = 0 (max_requests >= 1).
C16_AllowsFirstMax ==
    limiter # <<>> =>
        \A key \in Keys :
            LET vs == VerdictsOf(key)
                config == limiter[1].config
            IN  \A j \in 1..Len(vs) :
                    vs[j].at < vs[1].at + config.window =>
                        /\ vs[j].allowed <=> j <= config.max_requests
                        /\ ~vs[j].allowed => vs[j].remaining = 0

\* a limiter of three has handled five requests of one key inside one
\* window
C16_Witness ==
    /\ limiter # <<>>
    /\ limiter[1].config.max_requests = MaxRequests
    /\ Len(VerdictsOf("a")) = MaxRequests + 2
    /\ VerdictsOf("a")[MaxRequests + 2].at < VerdictsOf("a")[1].at + limiter[1].config.window
    /\ ~VerdictsOf("a")[MaxRequests + 2].allowed

(***************************************************************************)
(* Shared circuit breaker claims                                           *)
(***************************************************************************)
\* C28: concurrent calls on one CircuitBreaker never deadlock: under every
\* interleaving of stats() with the state transitions run by record_success,
\* record_failure, close() and open(), no set of calls is left in which each
\* waits for a guard that another call of the set holds.
C28_NoDeadlock ==
    \A S \in SUBSET (DOMAIN cb_pc) :
        S # {} => \E t \in S : Blockers(t) \cap S = {}

\* C29: whenever a CircuitBreaker is Open (and no transition is under way
\* under the write guard of `state`) its next_attempt time is set, under
\* every interleaving of record_failure, open() and reset().
C29_OpenHasNextAttempt ==
    (breaker # <<>> /\ StateWriters = {} /\ breaker[1].state = Open) =>
        breaker[1].next_attempt # <<>>

(***************************************************************************)
(* Shared rate limit claims                                                *)
(***************************************************************************)
\* C30: under every interleaving of concurrent RateLimit::before calls for
\* one key, at most max_requests of the requests settled within one window
\* (the window that the key's first admitted request opens) are admitted.
C30_AtMostMaxAdmitted ==
    limiter # <<>> =>
        \A key \in Keys :
            LET vs == VerdictsOf(key)
                config == limiter[1].config
                admitted == {j \in 1..Len(vs) :
                                /\ vs[j].allowed
                                /\ vs[j].at < vs[1].at + config.window}
            IN  Cardinality(admitted) <= config.max_requests

====
